---- MODULE Spec2Model ----
(***************************************************************************)
(* A model of the lolb reverse load balancer's connection pipeline:        *)
(*   - the Peekable framing buffer            (src/src/peek.rs)            *)
(*   - the service registry and its router    (src/src/service.rs)         *)
(*   - the connection dispatcher              (src/src/lib.rs)             *)
(*   - the HTTP/1.1 body reader               (src/src/http11.rs,          *)
(*                                             src/src/limit.rs,           *)
(*                                             src/src/body.rs)            *)
(* Each component has a specification of its own over the shared variable  *)
(* tuple; the variables of the components a specification does not drive   *)
(* stay at their initial value.                                            *)
(***************************************************************************)
EXTENDS Integers, Sequences, FiniteSets, TLC

VARIABLES
    \* ---- Peekable on its own (SpecPeek)
    sent,        \* the bytes the peer wrote to the socket, in order
    peekable,    \* the Peekable: wrapped socket + buffered bytes
    delivered,   \* the bytes poll_read has handed out so far
    lastPeek,    \* arguments and result of the latest peek since the last read
    prevPeek,    \* the peek before it, when nothing came in between
    panicked     \* the task panicked (slice index out of range)

VARIABLES
    \* ---- the service registry (SpecRoute, SpecDispatch)
    domains,     \* Services.domains: Vec<ServiceDomain>
    alive,       \* the ServiceConnections whose strong Arc has not been dropped
    nextConn,    \* the id the next ServiceConnection gets
    lookup       \* the Services::route call in progress, or the latest one's result

VARIABLES
    \* ---- the dispatcher (SpecDispatch)
    persist,     \* the Persist store: ReconnectKey -> Preauthed record, or NoRecord
    now,         \* current_time_millis()
    ticks,       \* how often the clock has advanced
    accepted,    \* how many connections provider.accept() has produced
    conn,        \* per accept loop: the connection it is handling, or NoConn
    last,        \* what handle_incoming did with the connection it decided latest
    regs,        \* the upstreams add_preauthed_service registered, in order
    serviceUp    \* the registered upstreams whose service has not hung up

VARIABLES
    \* ---- the HTTP/1.1 request reader (SpecHttp)
    http         \* one client connection: its socket, the parsed request, its body

VARIABLES
    \* ---- the chunked codec on its own (SpecChunked)
    codec        \* a ChunkedEncoder, what it wrote, and a ChunkedDecoder reading that

VARIABLES
    \* ---- the HTTP/2 body bridge (SpecBridge)
    bridge       \* one send_request / send_response_http2 call: source, destination, frames

VARIABLES
    \* ---- the HTTP/1.1 responder (SpecRespond)
    resp         \* one send_response_http1 call: the upstream response, what was written

VARIABLES
    \* ---- LimitWrite on its own (SpecLimitWrite)
    lw           \* a LimitWrite over a socket, and what the socket accepted

VARIABLES
    \* ---- the accept loop and the client connections it handles (SpecServe)
    srv          \* the task of accept_incoming: its position, the lock, what it did

VARIABLES
    \* ---- the round-robin index of dns.rs (SpecIndexLoop)
    indexLoop    \* an IndexLoop<usize>, how it was made, and what next() returned

VARIABLES
    \* ---- the chunked decoder over bodies off the wire (SpecDecoder)
    decoding     \* a ChunkedDecoder, the body sent to it, what its data() calls did

VARIABLES
    \* ---- an HTTP/1.1 connection with two requests (SpecKeepAlive)
    keep         \* handle_client's HTTP/1.1 loop: the requests sent, the socket, what was parsed

VARIABLES
    \* ---- a client connection from accept to its first request (SpecProbe)
    probe        \* the peeks of handle_incoming and handle_client and the first parse

peekVars == <<sent, peekable, delivered, lastPeek, prevPeek, panicked>>

routeVars == <<domains, alive, nextConn, lookup>>

dispVars == <<persist, now, ticks, accepted, conn, last, regs, serviceUp>>

httpVars == <<http>>

codecVars == <<codec>>

bridgeVars == <<bridge>>

respVars == <<resp>>

limitVars == <<lw>>

serveVars == <<srv>>

loopVars == <<indexLoop>>

decoderVars == <<decoding>>

keepVars == <<keep>>

probeVars == <<probe>>

vars == <<peekVars, routeVars, dispVars, httpVars, codecVars, bridgeVars, respVars, limitVars, serveVars, loopVars, decoderVars, keepVars, probeVars>>

\* What the actions of one component leave alone
notPeek == <<routeVars, dispVars, httpVars, codecVars, bridgeVars, respVars, limitVars, serveVars, loopVars, decoderVars, keepVars, probeVars>>

notRoute == <<peekVars, dispVars, httpVars, codecVars, bridgeVars, respVars, limitVars, serveVars, loopVars, decoderVars, keepVars, probeVars>>

notDispatch == <<peekVars, httpVars, codecVars, bridgeVars, respVars, limitVars, serveVars, loopVars, decoderVars, keepVars, probeVars>>

notHttp == <<peekVars, routeVars, dispVars, codecVars, bridgeVars, respVars, limitVars, serveVars, loopVars, decoderVars, keepVars, probeVars>>

notCodec == <<peekVars, routeVars, dispVars, httpVars, bridgeVars, respVars, limitVars, serveVars, loopVars, decoderVars, keepVars, probeVars>>

notBridge == <<peekVars, routeVars, dispVars, httpVars, codecVars, respVars, limitVars, serveVars, loopVars, decoderVars, keepVars, probeVars>>

notResp == <<peekVars, routeVars, dispVars, httpVars, codecVars, bridgeVars, limitVars, serveVars, loopVars, decoderVars, keepVars, probeVars>>

notLimit == <<peekVars, routeVars, dispVars, httpVars, codecVars, bridgeVars, respVars, serveVars, loopVars, decoderVars, keepVars, probeVars>>

notServe == <<peekVars, routeVars, dispVars, httpVars, codecVars, bridgeVars, respVars, limitVars, loopVars, decoderVars, keepVars, probeVars>>

notLoop == <<peekVars, routeVars, dispVars, httpVars, codecVars, bridgeVars, respVars, limitVars, serveVars, decoderVars, keepVars, probeVars>>

notDecoder == <<peekVars, routeVars, dispVars, httpVars, codecVars, bridgeVars, respVars, limitVars, serveVars, loopVars, keepVars, probeVars>>

notKeep == <<peekVars, routeVars, dispVars, httpVars, codecVars, bridgeVars, respVars, limitVars, serveVars, loopVars, decoderVars, probeVars>>

notProbe == <<peekVars, routeVars, dispVars, httpVars, codecVars, bridgeVars, respVars, limitVars, serveVars, loopVars, decoderVars, keepVars>>

(***************************************************************************)
(* Bounds of the model.                                                    *)
(***************************************************************************)
MaxStreamLen == 3
MaxPeekBuf == 3
MaxConns == 2
MaxAccepts == 2
MaxTicks == 1
MaxContentLen == 2
MaxDataCalls == 3
MaxChunkLen == 11
MaxChunks == 2
MaxBridgeChunk == 3
MaxCapacity == 4
MaxZeroGrants == 1
MaxLimit == 4

\* the connections waiting at the provider behind the first
MaxWaiting == 1

\* the largest `max` of an IndexLoop, and the calls of next() on one
MaxIndex == 4

MaxNext == 6

\* the calls of data() on one chunked body
MaxDecodes == 5

\* the largest chunk that is also sent byte by byte
MaxBytewise == 30

\* a read size below the sizes of the chunks tried, in the place of
\* MAX_READ_SIZE
MaxReadScaled == 2

(***************************************************************************)
(* Generic helpers.                                                        *)
(***************************************************************************)
Min(a, b) == IF a < b THEN a ELSE b

Zeros(n) == [i \in 1..n |-> 0]

Take(s, n) == SubSeq(s, 1, Min(n, Len(s)))

Drop(s, n) == SubSeq(s, Min(n, Len(s)) + 1, Len(s))

IsPrefixOf(p, s) == Len(p) <= Len(s) /\ SubSeq(s, 1, Len(p)) = p

RECURSIVE Flatten(_)
Flatten(ss) == IF ss = <<>> THEN <<>> ELSE Head(ss) \o Flatten(Tail(ss))

\* All byte sequences over B of length at most n.
RECURSIVE SeqsUpTo(_, _)
SeqsUpTo(B, n) ==
    IF n = 0 THEN {<<>>}
    ELSE LET shorter == SeqsUpTo(B, n - 1)
         IN  shorter \cup {Append(s, b) : s \in {t \in shorter : Len(t) = n - 1}, b \in B}

\* Every way the peer's bytes can arrive: a sequence of non-empty segments
\* (what one read of the socket can return at most) whose concatenation is s.
RECURSIVE Segmentations(_)
Segmentations(s) ==
    IF s = <<>> THEN {<<>>}
    ELSE UNION {{<<SubSeq(s, 1, k)>> \o rest : rest \in Segmentations(SubSeq(s, k + 1, Len(s)))}
                : k \in 1..Len(s)}

(***************************************************************************)
(* The HTTP/1.1 request head (http11.rs try_parse_http11).  A byte is its  *)
(* ASCII code.  The parser is the part of httparse that requests with      *)
(* CRLF line ends, one space after the method and the path, and            *)
(* "name: value" header lines go through: Partial until the empty line is  *)
(* in the buffer, then the request line and the header lines.              *)
(***************************************************************************)
Crlf == <<13, 10>>

\* u8::to_ascii_lowercase over a slice
ToAsciiLowercase(s) == [i \in 1..Len(s) |-> IF s[i] \in 65..90 THEN s[i] + 32 ELSE s[i]]

\* position of the first occurrence of pat in s, 0 when there is none
IndexOf(s, pat) ==
    LET hits == {i \in 1..(Len(s) - Len(pat) + 1) : SubSeq(s, i, i + Len(pat) - 1) = pat}
    IN  IF hits = {} THEN 0 ELSE CHOOSE i \in hits : \A j \in hits : i <= j

RECURSIVE SplitOn(_, _)
SplitOn(s, sep) ==
    LET i == IndexOf(s, sep)
    IN  IF i = 0 THEN <<s>>
        ELSE <<SubSeq(s, 1, i - 1)>> \o SplitOn(SubSeq(s, i + Len(sep), Len(s)), sep)

\* lib.rs:189: b"PRI * HTTP/2.0\r\n\r\nSM\r\n\r\n"
H2_PREFACE ==
    <<80, 82, 73, 32, 42, 32, 72, 84, 84, 80, 47, 50, 46, 48, 13, 10, 13, 10,
      83, 77, 13, 10, 13, 10>>

\* lib.rs:190: H2_PREFACE.len()
H2_PREFACE_LEN == Len(H2_PREFACE)

\* "host", "content-length", "transfer-encoding", "chunked"
HOST == <<104, 111, 115, 116>>

CONTENT_LENGTH == <<99, 111, 110, 116, 101, 110, 116, 45, 108, 101, 110, 103, 116, 104>>

TRANSFER_ENCODING == <<116, 114, 97, 110, 115, 102, 101, 114, 45, 101, 110, 99, 111, 100, 105, 110, 103>>

CHUNKED == <<99, 104, 117, 110, 107, 101, 100>>

\* http11.rs:81: the headers httparse has room for
MAX_HEADERS == 128

NoRequest ==
    [status |-> "partial", head_len |-> 0, method |-> <<>>, path |-> <<>>,
     authority |-> <<>>, headers |-> <<>>]

(***************************************************************************)
(* httparse::Request::parse (called at http11.rs:83) reads the head byte   *)
(* by byte: it answers Partial when the bytes end where more are needed    *)
(* and Err as soon as a byte cannot stand where it is.  The parsers below  *)
(* work on positions of buf; their `st` is "ok", "partial" or "err".       *)
(***************************************************************************)

\* httparse's token bytes (the tchar of RFC 7230): a method and a header
\* name are made of these
TokenBytes ==
    {33, 35, 36, 37, 38, 39, 42, 43, 45, 46, 94, 95, 96, 124, 126}
        \cup (48..57) \cup (65..90) \cup (97..122)

IsToken(b) == b \in TokenBytes

\* the bytes httparse takes in a request target
UriBytes == (33..126) \cup (128..255)

\* the bytes httparse takes in a header value
HeaderValueBytes == {9} \cup (32..126) \cup (128..255)

\* the first position from i on whose byte is not in `bytes`, Len(buf) + 1
\* when there is none
ScanWhile(buf, i, bytes) ==
    CHOOSE j \in i..(Len(buf) + 1) :
        /\ j = Len(buf) + 1 \/ buf[j] \notin bytes
        /\ \A k \in i..(j - 1) : buf[k] \in bytes

\* the end of a line at i: "\r\n" or "\n"; at: the position behind it
Newline(buf, i) ==
    IF i > Len(buf) THEN [st |-> "partial", at |-> i]
    ELSE IF buf[i] = 13
         THEN IF i + 1 > Len(buf) THEN [st |-> "partial", at |-> i]
              ELSE IF buf[i + 1] = 10 THEN [st |-> "ok", at |-> i + 2]
              ELSE [st |-> "err", at |-> i]
    ELSE IF buf[i] = 10 THEN [st |-> "ok", at |-> i + 1]
    ELSE [st |-> "err", at |-> i]

\* the empty lines in front of the request line are skipped; at: the first
\* byte of the method
RECURSIVE SkipEmptyLines(_, _)
SkipEmptyLines(buf, i) ==
    IF i > Len(buf) THEN [st |-> "partial", at |-> i]
    ELSE IF buf[i] \in {13, 10}
         THEN LET Behind(n) == IF n.st = "ok" THEN SkipEmptyLines(buf, n.at) ELSE n
              IN  Behind(Newline(buf, i))
    ELSE [st |-> "ok", at |-> i]

\* "HTTP/1."
HttpVersionPrefix == <<72, 84, 84, 80, 47, 49, 46>>

\* the version at i: "HTTP/1.0" or "HTTP/1.1"; with fewer than 8 bytes left
\* the bytes there are must be the start of one
ParseVersion(buf, i) ==
    LET have == Len(buf) - i + 1
        n == Min(have, Len(HttpVersionPrefix))
    IN  IF SubSeq(buf, i, i + n - 1) # SubSeq(HttpVersionPrefix, 1, n) THEN "err"
        ELSE IF have < Len(HttpVersionPrefix) + 1 THEN "partial"
        ELSE IF buf[i + Len(HttpVersionPrefix)] \in {48, 49} THEN "ok" ELSE "err"

\* a header value loses the spaces and tabs at its end
RECURSIVE TrimTrailing(_)
TrimTrailing(s) ==
    IF s # <<>> /\ s[Len(s)] \in {32, 9} THEN TrimTrailing(SubSeq(s, 1, Len(s) - 1)) ELSE s

\* the header lines from i on, up to the empty line; acc: the headers read
\* so far; at: the position behind the head
RECURSIVE ParseHeaders(_, _, _)
ParseHeaders(buf, i, acc) ==
    LET Partial == [st |-> "partial", at |-> i, headers |-> acc]
        Err == [st |-> "err", at |-> i, headers |-> acc]
        Ended(n) == [st |-> n.st, at |-> n.at, headers |-> acc]
        \* the value from v to e - 1, the line's end at e
        Value(c, v, e) ==
            LET Behind(n) ==
                    IF n.st # "ok" THEN Ended(n)
                    \* the slot for the header is taken when its line is read
                    ELSE IF Len(acc) = MAX_HEADERS THEN Err
                    ELSE ParseHeaders(buf, n.at,
                             Append(acc, [name |-> SubSeq(buf, i, c - 1),
                                          value |-> TrimTrailing(SubSeq(buf, v, e - 1))]))
            IN  IF e > Len(buf) THEN Partial
                ELSE IF buf[e] \notin {13, 10} THEN Err
                ELSE Behind(Newline(buf, e))
        \* the colon at c, the value from v on
        Spaces(c, v) ==
            IF v > Len(buf) THEN Partial ELSE Value(c, v, ScanWhile(buf, v, HeaderValueBytes))
        Name(c) ==
            IF c > Len(buf) THEN Partial
            ELSE IF buf[c] # 58 THEN Err
            ELSE Spaces(c, ScanWhile(buf, c + 1, {32, 9}))
    IN  IF i > Len(buf) THEN Partial
        ELSE IF buf[i] \in {13, 10} THEN Ended(Newline(buf, i))
        ELSE IF ~IsToken(buf[i]) THEN Err
        ELSE Name(ScanWhile(buf, i, TokenBytes))

\* http's Authority: the bytes an authority may hold; '/', '?' and '#' end
\* it, and an authority that ends before the value does is refused
AuthorityBytes ==
    {33, 36, 38, 39, 61, 64, 93, 95, 126} \cup ((40..59) \ {47}) \cup (65..91) \cup (97..122)

\* Authority::parse, folded over the value from i on; f: colon_cnt,
\* start_bracket, end_bracket, has_percent, at_sign_pos (0: None)
RECURSIVE AuthorityScan(_, _, _)
AuthorityScan(s, i, f) ==
    IF i > Len(s)
    THEN /\ f.start_bracket = f.end_bracket
         /\ f.colon_cnt <= 1
         /\ f.at_sign_pos # Len(s)
         /\ ~f.has_percent
    ELSE IF s[i] = 58 THEN AuthorityScan(s, i + 1, [f EXCEPT !.colon_cnt = @ + 1])
    ELSE IF s[i] = 91
         THEN /\ ~f.has_percent
              /\ ~f.start_bracket
              /\ AuthorityScan(s, i + 1, [f EXCEPT !.start_bracket = TRUE])
    ELSE IF s[i] = 93
         THEN /\ f.start_bracket
              /\ ~f.end_bracket
              /\ AuthorityScan(s, i + 1, [f EXCEPT !.end_bracket = TRUE, !.colon_cnt = 0,
                                                   !.has_percent = FALSE])
    ELSE IF s[i] = 64
         THEN AuthorityScan(s, i + 1, [f EXCEPT !.at_sign_pos = i, !.colon_cnt = 0,
                                                !.has_percent = FALSE])
    ELSE IF s[i] = 37 THEN AuthorityScan(s, i + 1, [f EXCEPT !.has_percent = TRUE])
    ELSE s[i] \in AuthorityBytes /\ AuthorityScan(s, i + 1, f)

\* uri.authority(value) takes the value
AuthorityValid(value) ==
    /\ value # <<>>
    /\ AuthorityScan(value, 1, [colon_cnt |-> 0, start_bracket |-> FALSE, end_bracket |-> FALSE,
                                has_percent |-> FALSE, at_sign_pos |-> 0])

\* http's PathAndQuery: the bytes of a path, and of a query behind '?';
\* the bytes from 0x7F on are taken in both
PathBytes ==
    {33, 34, 61, 123, 124, 125, 126} \cup (36..59) \cup (64..95) \cup (97..122) \cup (127..255)

QueryBytes == {33, 61} \cup (36..59) \cup (63..255)

\* the target without its fragment: PathAndQuery drops what stands from '#' on
WithoutFragment(path) ==
    LET h == IndexOf(path, <<35>>)
    IN  IF h = 0 THEN path ELSE SubSeq(path, 1, h - 1)

\* uri.path_and_query(path) takes the target
PathValid(path) ==
    LET kept == WithoutFragment(path)
        q == IndexOf(kept, <<63>>)
        pathEnd == IF q = 0 THEN Len(kept) ELSE q - 1
    IN  /\ \A i \in 1..pathEnd : kept[i] \in PathBytes
        /\ \A i \in (pathEnd + 2)..Len(kept) : kept[i] \in QueryBytes

\* str::from_utf8 on the bytes of s from i on: they are well-formed UTF-8
RECURSIVE IsUtf8(_, _)
IsUtf8(s, i) ==
    LET In(k, lo, hi) == k <= Len(s) /\ s[k] \in lo..hi
        Cont(k) == In(k, 128, 191)
    IN  IF i > Len(s) THEN TRUE
        ELSE IF s[i] < 128 THEN IsUtf8(s, i + 1)
        ELSE IF s[i] \in 194..223 THEN Cont(i + 1) /\ IsUtf8(s, i + 2)
        ELSE IF s[i] = 224 THEN In(i + 1, 160, 191) /\ Cont(i + 2) /\ IsUtf8(s, i + 3)
        ELSE IF s[i] \in (225..236) \cup {238, 239}
             THEN Cont(i + 1) /\ Cont(i + 2) /\ IsUtf8(s, i + 3)
        ELSE IF s[i] = 237 THEN In(i + 1, 128, 159) /\ Cont(i + 2) /\ IsUtf8(s, i + 3)
        ELSE IF s[i] = 240
             THEN In(i + 1, 144, 191) /\ Cont(i + 2) /\ Cont(i + 3) /\ IsUtf8(s, i + 4)
        ELSE IF s[i] \in 241..243
             THEN Cont(i + 1) /\ Cont(i + 2) /\ Cont(i + 3) /\ IsUtf8(s, i + 4)
        ELSE IF s[i] = 244
             THEN In(i + 1, 128, 143) /\ Cont(i + 2) /\ Cont(i + 3) /\ IsUtf8(s, i + 4)
        ELSE FALSE

\* HeaderMap::append (through bld.header, http11.rs:102): the values of one
\* name stand together where the name's first value stands
HeaderAppend(headers, name, value) ==
    LET same == {i \in 1..Len(headers) : headers[i].name = name}
        at == IF same = {} THEN Len(headers)
              ELSE CHOOSE i \in same : \A j \in same : j <= i
    IN  SubSeq(headers, 1, at) \o <<[name |-> name, value |-> value]>>
            \o SubSeq(headers, at + 1, Len(headers))

\* the header lines appended one by one, as the request's headers iterate
RECURSIVE HeaderMapOf(_, _)
HeaderMapOf(lines, acc) ==
    IF lines = <<>> THEN acc
    ELSE HeaderMapOf(Tail(lines), HeaderAppend(acc, Head(lines).name, Head(lines).value))

\* http11.rs:80-119.  status "partial": Ok(None); "complete": Ok(Some((req,
\* head_len))); "err": httparse refuses the bytes, or the request cannot be
\* built: the uri has a scheme and needs an authority, which the last host
\* header gives, and the authority and the target must be valid.  `headers`
\* are the request's headers without host, their names lower-cased as
\* HeaderName keeps them.
TryParseHttp11(buf) ==
    LET Err == [NoRequest EXCEPT !.status = "err"]
        Built(method, path, named, head_len) ==
            LET hosts == SelectSeq(named, LAMBDA h : h.name = HOST)
                others == HeaderMapOf(SelectSeq(named, LAMBDA h : h.name # HOST), <<>>)
            IN  IF hosts = <<>> \/ ~AuthorityValid(hosts[Len(hosts)].value) \/ ~PathValid(path)
                THEN Err
                ELSE [status |-> "complete",
                      head_len |-> head_len,
                      method |-> method,
                      path |-> IF WithoutFragment(path) = <<>> THEN <<47>>
                               ELSE WithoutFragment(path),
                      authority |-> hosts[Len(hosts)].value,
                      headers |-> others]
        Headers(method, path, h) ==
            IF h.st = "partial" THEN NoRequest
            ELSE IF h.st = "err" THEN Err
            ELSE Built(method, path,
                       [i \in 1..Len(h.headers) |->
                            [name |-> ToAsciiLowercase(h.headers[i].name),
                             value |-> h.headers[i].value]],
                       h.at - 1)
        Line(method, path, n) ==
            IF n.st = "partial" THEN NoRequest
            ELSE IF n.st = "err" THEN Err
            ELSE Headers(method, path, ParseHeaders(buf, n.at, <<>>))
        Version(method, path, at, v) ==
            IF v = "partial" THEN NoRequest
            ELSE IF v = "err" THEN Err
            ELSE Line(method, path, Newline(buf, at + Len(HttpVersionPrefix) + 1))
        \* the target from `from` to `to` - 1
        Target(method, from, to) ==
            IF to > Len(buf) THEN NoRequest
            ELSE IF buf[to] # 32 \/ to = from THEN Err
            \* the target is handed on as a str
            ELSE IF ~IsUtf8(SubSeq(buf, from, to - 1), 1) THEN Err
            ELSE Version(method, SubSeq(buf, from, to - 1), to + 1, ParseVersion(buf, to + 1))
        \* the method from `from` to `to` - 1
        Method(from, to) ==
            IF to > Len(buf) THEN NoRequest
            ELSE IF buf[to] # 32 \/ to = from THEN Err
            ELSE Target(SubSeq(buf, from, to - 1), to + 1, ScanWhile(buf, to + 1, UriBytes))
        Skipped(s) ==
            IF s.st = "partial" THEN NoRequest
            ELSE IF s.st = "err" THEN Err
            ELSE Method(s.at, ScanWhile(buf, s.at, TokenBytes))
    IN  Skipped(SkipEmptyLines(buf, 1))

\* what HeaderMap::get and HeaderMap::remove return: the first value under
\* the name, or <<-1>> (None)
HeaderGet(headers, name) ==
    LET found == SelectSeq(headers, LAMBDA h : h.name = name)
    IN  IF found = <<>> THEN <<-1>> ELSE found[1].value

\* HeaderMap::remove: the values under the name leave the map and the last
\* name of the map, with its values, takes their place (swap_remove)
HeaderRemove(headers, name) ==
    LET at == {i \in 1..Len(headers) : headers[i].name = name}
        first == CHOOSE i \in at : \A j \in at : i <= j
        rest == SelectSeq(headers, LAMBDA h : h.name # name)
        moved == SelectSeq(rest, LAMBDA h : h.name = rest[Len(rest)].name)
        others == SelectSeq(rest, LAMBDA h : h.name # rest[Len(rest)].name)
    IN  IF at = {} THEN headers
        ELSE IF rest = <<>> \/ headers[Len(headers)].name = name THEN rest
        ELSE SubSeq(others, 1, first - 1) \o moved \o SubSeq(others, first, Len(others))

\* the digits of usize::MAX, 2^64 - 1: "18446744073709551615" and sixteen 'f'
USIZE_MAX_DECIMAL ==
    <<49, 56, 52, 52, 54, 55, 52, 52, 48, 55, 51, 55, 48, 57, 53, 53, 49, 54, 49, 53>>

USIZE_MAX_HEX == [i \in 1..16 |-> 102]

\* a number's digits without the zeros in front
RECURSIVE StripZeros(_)
StripZeros(s) == IF s # <<>> /\ Head(s) = 48 THEN StripZeros(Tail(s)) ELSE s

\* the number with the decimal digits a is above the one with the digits b,
\* neither with zeros in front
DigitsAbove(a, b) ==
    \/ Len(a) > Len(b)
    \/ /\ Len(a) = Len(b)
       /\ \E i \in 1..Len(a) : a[i] > b[i] /\ \A j \in 1..(i - 1) : a[j] = b[j]

\* str::parse::<usize>: an optional '+' and at least one decimal digit, -1
\* for Err, which a number above usize::MAX is too
ParseUsize(s) ==
    LET digits == IF s # <<>> /\ Head(s) = 43 THEN Tail(s) ELSE s
        value[i \in 0..Len(digits)] == IF i = 0 THEN 0 ELSE value[i - 1] * 10 + (digits[i] - 48)
    IN  IF digits = <<>> \/ \E i \in 1..Len(digits) : digits[i] \notin 48..57 THEN -1
        ELSE IF DigitsAbove(StripZeros(digits), USIZE_MAX_DECIMAL) THEN -1
        ELSE value[Len(digits)]

\* http11.rs:55-60
RecvChunked(req) == ToAsciiLowercase(HeaderGet(req.headers, TRANSFER_ENCODING)) = CHUNKED

\* http11.rs:62-67
ContentLen(req) ==
    LET h == HeaderGet(req.headers, CONTENT_LENGTH)
        parsed == IF h = <<-1>> THEN -1 ELSE ParseUsize(h)
    IN  IF parsed = -1 THEN 0 ELSE parsed

(***************************************************************************)
(* The wrapped socket: AsyncRead::read(buf) with buf.len() = n returns the *)
(* bytes of the segment at hand, at most n of them, and 0 bytes when the   *)
(* stream has ended (or n = 0).                                            *)
(***************************************************************************)
SocketRead(wire, n) ==
    IF n = 0 \/ wire = <<>>
    THEN [wire |-> wire, out |-> <<>>]
    ELSE LET seg == Head(wire)
             k == Min(n, Len(seg))
         IN  [wire |-> IF k = Len(seg) THEN Tail(wire)
                       ELSE <<SubSeq(seg, k + 1, Len(seg))>> \o Tail(wire),
              out |-> SubSeq(seg, 1, k)]

(***************************************************************************)
(* Peekable (peek.rs).  The BytesMut `buffered` is held as its bytes up to *)
(* the last one written, `buffered`, and the count `padding` of 0x0 bytes  *)
(* that resize() appended behind them: its contents are                    *)
(* buffered \o Zeros(padding).                                             *)
(***************************************************************************)
PeekableNew(wire) == [wrapped |-> wire, buffered |-> <<>>, padding |-> 0]

BufferedLen(p) == Len(p.buffered) + p.padding

BufferedBytes(p) == p.buffered \o Zeros(p.padding)

\* &self.buffered[0..k], k <= buffered.len()
BufferedTake(p, k) ==
    IF k <= Len(p.buffered) THEN SubSeq(p.buffered, 1, k)
    ELSE p.buffered \o Zeros(k - Len(p.buffered))

\* self.buffered.resize(n, 0x0), called only when buffered.len() < n
BufferedResize(p, n) == [p EXCEPT !.padding = p.padding + (n - BufferedLen(p))]

\* copy `bytes` into self.buffered[total..]
BufferedWrite(p, total, bytes) ==
    LET before == BufferedTake(p, total)
        full == BufferedLen(p)
    IN  [p EXCEPT !.buffered = before \o bytes,
                  !.padding = full - (total + Len(bytes))]

\* The is_enough predicates callers pass: |_| false, a predicate that holds
\* once the prefix has at least `arg` bytes, and parse_http11's closure
\* (http11.rs:26-31): the prefix parses as a complete request head.
Never == [kind |-> "never", arg |-> 0]

AtLeast(m) == [kind |-> "atleast", arg |-> m]

HeadParsed == [kind |-> "http11", arg |-> 0]

IsEnough(pred, prefix) ==
    CASE pred.kind = "never" -> FALSE
      [] pred.kind = "atleast" -> Len(prefix) >= pred.arg
      [] pred.kind = "http11" -> TryParseHttp11(prefix).status = "complete"

\* peek.rs:40-50, the fill loop
RECURSIVE PeekFill(_, _, _, _)
PeekFill(p, total, n, pred) ==
    IF total >= n THEN [p |-> p, total |-> total]
    ELSE LET Filled(p2, read) ==
                 IF read = 0 THEN [p |-> p, total |-> total]
                 ELSE IF IsEnough(pred, BufferedTake(p2, total + read))
                      THEN [p |-> p2, total |-> total + read]
                      ELSE PeekFill(p2, total + read, n, pred)
             After(r) == Filled([BufferedWrite(p, total, r.out) EXCEPT !.wrapped = r.wire],
                                Len(r.out))
         IN  After(SocketRead(p.wrapped, BufferedLen(p) - total))

\* Peekable::peek with buf.len() = n.  `panic`: buf[0..total] with
\* total > buf.len() is out of range.
Peek(p, n, pred) ==
    LET Filled(f) ==
            [p |-> f.p,
             panic |-> f.total > n,
             out |-> IF f.total > n THEN <<>> ELSE BufferedTake(f.p, f.total)]
    IN  Filled(PeekFill(IF BufferedLen(p) < n THEN BufferedResize(p, n) ELSE p,
                        BufferedLen(p), n, pred))

\* Peekable::poll_read with buf.len() = n
PollRead(p, n) ==
    IF BufferedLen(p) # 0
    THEN LET max == Min(BufferedLen(p), n)
             fromData == Min(max, Len(p.buffered))
         IN  [p |-> [p EXCEPT !.buffered = Drop(p.buffered, fromData),
                              !.padding = p.padding - (max - fromData)],
              out |-> BufferedTake(p, max)]
    ELSE LET r == SocketRead(p.wrapped, n)
         IN  [p |-> [p EXCEPT !.wrapped = r.wire], out |-> r.out]

\* peek.rs:59-63 io::Read::read with buf.len() = n: the read of the wrapped
\* socket, past whatever is buffered
IoRead(p, n) ==
    LET r == SocketRead(p.wrapped, n)
    IN  [p |-> [p EXCEPT !.wrapped = r.wire], out |-> r.out]

(***************************************************************************)
(* The state of each component before anything has happened; a             *)
(* specification leaves the components it does not drive in this state.    *)
(***************************************************************************)
NoPeek == [n |-> 0, pred |-> Never, out |-> <<>>, none |-> TRUE]

PeekIdle ==
    /\ sent = <<>>
    /\ peekable = PeekableNew(<<>>)
    /\ delivered = <<>>
    /\ lastPeek = NoPeek
    /\ prevPeek = NoPeek
    /\ panicked = FALSE

NoLookup ==
    [pc |-> "idle", started |-> FALSE, host |-> <<>>, path |-> <<>>,
     d |-> 0, h |-> 0, r |-> 0, aliveAtStart |-> {}, connsAtStart |-> <<>>, result |-> 0]

RouteIdle ==
    /\ domains = <<>>
    /\ alive = {}
    /\ nextConn = 1
    /\ lookup = NoLookup

NoRecord == [none |-> TRUE]

\* the callers of accept_incoming that hold clones of one
\* Arc<Mutex<LoadBalancer>>: two, so that one handle_incoming can stand at an
\* await while the other one runs
AcceptLoops == {1, 2}

\* pc: where handle_incoming stands; read, peeked: what the peek of lib.rs:94
\* gave; authed, at: the record load_preauthed gave and when; consumed: what
\* the read of lib.rs:117 took
NoConn ==
    [pc |-> "none", sent |-> <<>>, socket |-> PeekableNew(<<>>), read |-> 0, peeked |-> <<>>,
     authed |-> NoRecord, at |-> 0, consumed |-> <<>>]

NoLast ==
    [loop |-> 0, branch |-> "none", result |-> "none", lolb |-> FALSE, key |-> 0, hadRecord |-> FALSE,
     consumed |-> <<>>, rest |-> <<>>, sent |-> <<>>, registered |-> FALSE,
     domainsBefore |-> <<>>, domainsAfter |-> <<>>]

DispatchIdle ==
    /\ persist = <<>>
    /\ now = 0
    /\ ticks = 0
    /\ accepted = 0
    /\ conn = [l \in AcceptLoops |-> NoConn]
    /\ last = NoLast
    /\ regs = <<>>
    /\ serviceUp = {}

NoBody == [kind |-> "none", read |-> 0, limit |-> 0, amount_left |-> 0]

\* cl, te: the values of the Content-Length and Transfer-Encoding headers the
\* client sent, <<-1>> for none; payload: the chunked body it encoded
NoHttp ==
    [pc |-> "idle", sent |-> <<>>, declared |-> 0, cl |-> <<-1>>, te |-> <<-1>>, payload |-> <<>>,
     socket |-> PeekableNew(<<>>),
     req |-> NoRequest, body |-> NoBody, yielded |-> <<>>, calls |-> 0,
     ended |-> FALSE, afterEnd |-> FALSE, failed |-> FALSE]

HttpIdle == http = NoHttp

NoCodec ==
    [pc |-> "idle", chunks |-> <<>>, sent |-> 0, written |-> <<>>,
     socket |-> PeekableNew(<<>>), amount_left |-> 0, decoded |-> <<>>, calls |-> 0,
     ended |-> FALSE, failed |-> FALSE]

CodecIdle == codec = NoCodec

\* source: the chunks the source body's data() yields, in order; sourceFails:
\* behind them it yields an error instead of None; isEnd: is_end_stream() at
\* the start; dst: the destination stream, "open", "closed" (reset by the
\* peer) or "broken"; frames: the data frames sent; released: the amounts
\* released on the source
NoBridge ==
    [pc |-> "idle", leg |-> "none", source |-> <<>>, sourceFails |-> FALSE, isEnd |-> FALSE,
     taken |-> 0, body_data |-> <<>>, dst |-> "open", headersEos |-> FALSE,
     frames |-> <<>>, released |-> <<>>]

BridgeIdle == bridge = NoBridge

\* headers: the upstream response's headers; isEnd: body.is_end_stream() when
\* the response arrives; source, sourceFails, taken: as in the bridge;
\* http11body: the Http11Body the chunks are written through; header: the
\* bytes of the header as serialised, headerPad: the 0x0 bytes written behind
\* them; socket: the writes of body bytes made on the client's socket
NoResp ==
    [pc |-> "idle", headers |-> <<>>, isEnd |-> FALSE, source |-> <<>>, sourceFails |-> FALSE,
     taken |-> 0, send_chunked |-> FALSE, http11body |-> [kind |-> "none", written |-> 0, limit |-> 0],
     header |-> <<>>, headerPad |-> 0, socket |-> <<>>]

RespIdle == resp = NoResp

\* limit, written: the LimitWrite's fields; socket: the bytes its source has
\* accepted; calls: the poll_write calls made; last: the result of the last
\* one ("ok", "limit": refused by the limit, "io": the source's error);
\* before: the number of bytes the source had accepted before the last call
NoLimit ==
    [pc |-> "idle", limit |-> 0, written |-> 0, socket |-> <<>>, calls |-> 0,
     last |-> "none", before |-> 0]

LimitIdle == lw = NoLimit

\* pc: where the task of accept_incoming is; lock: the LoadBalancer's mutex is
\* held; provider: what the connection provider's accept() will yield, in
\* order; cur: the connection being handled; done: the requests of cur taken
\* so far; socket: the connection of an HTTP/1.1 client; body: the body of
\* the request taken from it; store: the reconnect keys persisted; log: what
\* the task did
NoServe ==
    [pc |-> "idle", lock |-> FALSE, provider |-> <<>>, accepted |-> 0,
     cur |-> [kind |-> "none", requests |-> <<>>, key |-> 0, joined |-> FALSE], done |-> 0,
     socket |-> PeekableNew(<<>>), body |-> NoBody,
     store |-> {}, log |-> <<>>]

ServeIdle == srv = NoServe

\* current, max: the IndexLoop's fields; start: the `current` it was made
\* with; returned: what the calls of next() returned, in order
NoLoop == [pc |-> "idle", current |-> 0, max |-> 0, start |-> 0, returned |-> <<>>]

LoopIdle == indexLoop = NoLoop

\* form: how the size line of the body's chunk is written; payload: the
\* chunk's bytes; rest: what the peer sent behind the body; max_read: the
\* most data_res reads of a chunk in one call; socket: the stream;
\* amount_left: the decoder's field; outs: what the data() calls yielded, in
\* order; calls: their number; last: the result of the last one; ended: one
\* of them returned None; leftAtEnd: the stream as the first of those left it
NoDecoder ==
    [pc |-> "idle", form |-> "none", payload |-> <<>>, rest |-> <<>>, max_read |-> 0,
     socket |-> PeekableNew(<<>>), amount_left |-> 0, outs |-> <<>>, calls |-> 0,
     last |-> "none", ended |-> FALSE, leftAtEnd |-> <<>>]

DecoderIdle == decoding = NoDecoder

\* first, body1, second: what the client sent, the first request's head,
\* its body as the payload it carries, and the second request; socket: the
\* connection; pc: where handle_client's loop is; body: the RecvBody of the
\* request in hand; yielded: what its data() calls yielded; calls: their
\* number; req1, req2: the requests parse_http11 returned
NoKeep ==
    [pc |-> "idle", first |-> <<>>, body1 |-> <<>>, second |-> <<>>,
     socket |-> PeekableNew(<<>>), body |-> NoBody, yielded |-> <<>>, calls |-> 0,
     req1 |-> NoRequest, req2 |-> NoRequest]

KeepIdle == keep = NoKeep

\* request: the request the client sent; open: the client keeps the
\* connection open and waits for the response (FALSE: it has shut down its
\* side behind the request); version: Connection.http_version; socket: the
\* connection; pc: the await the task is at; result: what parse_http11
\* returned
NoProbe ==
    [pc |-> "idle", request |-> <<>>, open |-> FALSE, version |-> "none",
     socket |-> PeekableNew(<<>>), result |-> "none"]

ProbeIdle == probe = NoProbe

(***************************************************************************)
(* SpecPeek: peeks and reads on one Peekable over every short stream and   *)
(* every way it can arrive.                                                *)
(***************************************************************************)
Bytes == {0, 1}

InitPeek ==
    /\ RouteIdle
    /\ DispatchIdle
    /\ HttpIdle
    /\ CodecIdle
    /\ BridgeIdle
    /\ RespIdle
    /\ LimitIdle
    /\ ServeIdle
    /\ LoopIdle
    /\ DecoderIdle
    /\ KeepIdle
    /\ ProbeIdle
    /\ sent \in SeqsUpTo(Bytes, MaxStreamLen)
    /\ \E w \in Segmentations(sent) : peekable = PeekableNew(w)
    /\ delivered = <<>>
    /\ lastPeek = NoPeek
    /\ prevPeek = NoPeek
    /\ panicked = FALSE

PeekOp(n, pred) ==
    /\ ~panicked
    /\ LET r == Peek(peekable, n, pred)
       IN  /\ peekable' = r.p
           /\ panicked' = r.panic
           /\ lastPeek' = [n |-> n, pred |-> pred, out |-> r.out, none |-> r.panic]
           /\ prevPeek' = lastPeek
    /\ UNCHANGED <<sent, delivered, notPeek>>

\* a read of n bytes through AsyncRead; the reader goes on until it has
\* MaxStreamLen bytes
ReadOp(n) ==
    /\ ~panicked
    /\ Len(delivered) < MaxStreamLen
    /\ LET r == PollRead(peekable, n)
       IN  /\ peekable' = r.p
           /\ delivered' = delivered \o r.out
    /\ lastPeek' = NoPeek
    /\ prevPeek' = NoPeek
    /\ UNCHANGED <<sent, panicked, notPeek>>

\* a read of n bytes through io::Read
IoReadOp(n) ==
    /\ ~panicked
    /\ Len(delivered) < MaxStreamLen
    /\ LET r == IoRead(peekable, n)
       IN  /\ peekable' = r.p
           /\ delivered' = delivered \o r.out
    /\ lastPeek' = NoPeek
    /\ prevPeek' = NoPeek
    /\ UNCHANGED <<sent, panicked, notPeek>>

PeekPreds == {Never} \cup {AtLeast(m) : m \in 1..MaxPeekBuf}

NextPeek ==
    \/ \E n \in 1..MaxPeekBuf, pred \in PeekPreds : PeekOp(n, pred)
    \/ \E n \in 1..MaxPeekBuf : ReadOp(n)
    \/ \E n \in 1..MaxPeekBuf : IoReadOp(n)

SpecPeek == InitPeek /\ [][NextPeek]_vars

\* C1: whatever peeks came before, the bytes handed out by reads are a prefix
\* of the stream (the prefix a fresh, un-peeked copy would deliver), and two
\* consecutive peeks with the same arguments return the same bytes.
C1_PeekDoesNotConsume ==
    /\ IsPrefixOf(delivered, sent)
    /\ (~lastPeek.none /\ ~prevPeek.none
        /\ lastPeek.n = prevPeek.n /\ lastPeek.pred = prevPeek.pred)
       => lastPeek.out = prevPeek.out

(***************************************************************************)
(* The service registry (service.rs).  Names and paths are sequences of    *)
(* characters; a ServiceConnection is known by its id, and a               *)
(* Weak<ServiceConnection> upgrades while the id is in `alive`.            *)
(* ServiceDomain.auth and ServiceHost.cert take no part in routing and are *)
(* left out.                                                               *)
(***************************************************************************)
\* Rust's str::ends_with / str::starts_with
EndsWith(s, suffix) ==
    Len(suffix) <= Len(s) /\ SubSeq(s, Len(s) - Len(suffix) + 1, Len(s)) = suffix

StartsWith(s, prefix) == IsPrefixOf(prefix, s)

\* The positions of s, in order, that satisfy P
Positions(s, P(_)) == SelectSeq([i \in 1..Len(s) |-> i], P)

\* Iterator::position / find: the first position that satisfies P, 0 for None
FirstPosition(s, P(_)) ==
    LET ps == Positions(s, P) IN IF ps = <<>> THEN 0 ELSE Head(ps)

\* slice::sort_by_key (a stable sort) of the positions `idxs` on key[i]
RECURSIVE SortByKey(_, _)
SortByKey(idxs, key) ==
    IF idxs = <<>> THEN <<>>
    ELSE LET n == Len(idxs)
             x == idxs[n]
             sorted == SortByKey(SubSeq(idxs, 1, n - 1), key)
         IN  SelectSeq(sorted, LAMBDA e : key[e] <= key[x]) \o <<x>>
             \o SelectSeq(sorted, LAMBDA e : key[e] > key[x])

\* slice::last, 0 for None
LastOf(s) == IF s = <<>> THEN 0 ELSE s[Len(s)]

ServiceRouteNew(prefix) == [prefix |-> prefix, connections |-> <<>>]

ServiceHostNew(host) == [host |-> host, routes |-> <<>>]

HostAddPreauthedAlwaysNew(h, p, c) ==
    [h EXCEPT !.routes = Append(h.routes, [prefix |-> p.prefix, connections |-> <<c>>])]

\* ServiceHost::add_preauthed
HostAddPreauthed(h, p, c) ==
    LET found == FirstPosition(h.routes, LAMBDA i : p.prefix = h.routes[i].prefix)
        routes == IF found = 0 THEN Append(h.routes, ServiceRouteNew(p.prefix)) ELSE h.routes
        idx == IF found = 0 THEN Len(h.routes) + 1 ELSE found
    IN  [h EXCEPT !.routes =
            [routes EXCEPT ![idx].connections = Append(routes[idx].connections, c)]]

\* ServiceDomain::add_preauthed
DomainAddPreauthed(d, p, c) ==
    LET found == FirstPosition(d.hosts, LAMBDA i : p.host = d.hosts[i].host)
        hosts == IF found = 0 THEN Append(d.hosts, ServiceHostNew(p.host)) ELSE d.hosts
        idx == IF found = 0 THEN Len(d.hosts) + 1 ELSE found
    IN  [d EXCEPT !.hosts = [hosts EXCEPT ![idx] = HostAddPreauthed(hosts[idx], p, c)]]

\* The domain Services::add_preauthed finds for p, 0 when it is not configured
\* (the expect() then panics).
PreauthedDomain(ds, p) == FirstPosition(ds, LAMBDA i : p.domain = ds[i].domain)

\* Services::add_preauthed, for a configured domain
ServicesAddPreauthed(ds, p, c) ==
    LET idx == PreauthedDomain(ds, p)
    IN  [ds EXCEPT ![idx] = DomainAddPreauthed(ds[idx], p, c)]

\* service.rs:158-166: the domains kept by the filter, sorted by length; the
\* last one is used.
RouteDomain(ds, host) ==
    LastOf(SortByKey(Positions(ds, LAMBDA i : EndsWith(ds[i].domain, host)),
                     [i \in 1..Len(ds) |-> Len(ds[i].domain)]))

\* service.rs:169: the host must be an exact match
RouteHost(d, host) == FirstPosition(d.hosts, LAMBDA i : d.hosts[i].host = host)

\* service.rs:172-180: the routes whose prefix starts the path, sorted by prefix
\* length; the last one is used.
BestRouteFirstMatch(routes, path) ==
    FirstPosition(routes, LAMBDA i : StartsWith(path, routes[i].prefix))

BestRoute(routes, path) ==
    LastOf(SortByKey(Positions(routes, LAMBDA i : StartsWith(path, routes[i].prefix)),
                     [i \in 1..Len(routes) |-> Len(routes[i].prefix)]))

\* Weak::upgrade().is_some()
UpgradeAlways(c, live) == TRUE

Upgrade(c, live) == c \in live

\* service.rs:186: route.connections.retain(|c| c.upgrade().is_some())
Retain(conns, live) == SelectSeq(conns, LAMBDA c : Upgrade(c, live))

FirstLiveFromEnd(conns, live) ==
    LET ps == Positions(conns, LAMBDA k : Upgrade(conns[k], live))
    IN  IF ps = <<>> THEN 0 ELSE conns[ps[Len(ps)]]

\* service.rs:191-195: the first connection that upgrades, 0 for None
FirstLive(conns, live) ==
    LET i == FirstPosition(conns, LAMBDA k : Upgrade(conns[k], live))
    IN  IF i = 0 THEN 0 ELSE conns[i]

(***************************************************************************)
(* Services::route as steps.  The lookup runs under the load balancer's    *)
(* mutex, so no add_preauthed interleaves with it; the strong Arc of an    *)
(* upstream is dropped by its owner without the mutex, at any step.        *)
(***************************************************************************)
\* service.rs:152-180: pick the domain, the host and the route
RouteSelect(ds, live, host, path) ==
    LET d == RouteDomain(ds, host)
        h == IF d = 0 THEN 0 ELSE RouteHost(ds[d], host)
        r == IF h = 0 THEN 0 ELSE BestRoute(ds[d].hosts[h].routes, path)
    IN  [pc |-> IF r = 0 THEN "idle" ELSE "retain", started |-> TRUE,
         host |-> host, path |-> path, d |-> d, h |-> h, r |-> r,
         aliveAtStart |-> live,
         connsAtStart |-> IF r = 0 THEN <<>> ELSE ds[d].hosts[h].routes[r].connections,
         result |-> 0]

RouteConns(ds, lk) == ds[lk.d].hosts[lk.h].routes[lk.r].connections

RouteBegin(host, path) ==
    /\ lookup.pc = "idle"
    /\ lookup' = RouteSelect(domains, alive, host, path)
    /\ UNCHANGED <<domains, alive, nextConn, notRoute>>

\* service.rs:186-189: prune, and give up when nothing is left
RouteRetain ==
    /\ lookup.pc = "retain"
    /\ LET kept == Retain(RouteConns(domains, lookup), alive)
       IN  /\ domains' = [domains EXCEPT
                  ![lookup.d].hosts[lookup.h].routes[lookup.r].connections = kept]
           /\ lookup' = [lookup EXCEPT !.pc = IF kept = <<>> THEN "idle" ELSE "find"]
    /\ UNCHANGED <<alive, nextConn, notRoute>>

\* service.rs:191-205: return the first connection that still upgrades, or go
\* round the loop again
RouteFind ==
    /\ lookup.pc = "find"
    /\ LET c == FirstLive(RouteConns(domains, lookup), alive)
       IN  lookup' = [lookup EXCEPT !.pc = IF c = 0 THEN "retain" ELSE "idle",
                                    !.result = c]
    /\ UNCHANGED <<domains, alive, nextConn, notRoute>>

\* The owner of an upstream drops its strong Arc<ServiceConnection>
DropStrong(c) ==
    /\ c \in alive
    /\ alive' = alive \ {c}
    /\ UNCHANGED <<domains, nextConn, lookup, notRoute>>

\* lib.rs:165-170: a new upstream is registered under the mutex
AddPreauthedOp(p) ==
    /\ lookup.pc = "idle"
    /\ nextConn <= MaxConns
    /\ PreauthedDomain(domains, p) # 0
    /\ domains' = ServicesAddPreauthed(domains, p, nextConn)
    /\ alive' = alive \cup {nextConn}
    /\ nextConn' = nextConn + 1
    /\ lookup' = NoLookup
    /\ UNCHANGED notRoute

\* The inputs: domain names "e" and "se", hosts below them, prefixes and paths
NameE == <<"e">>

NameSE == <<"s", "e">>

NameASE == <<"a", "s", "e">>

PathRoot == <<"/">>

PathX == <<"/", "x">>

PathXY == <<"/", "x", "y">>

PathY == <<"/", "y">>

Configurations ==
    {<<[domain |-> NameE, hosts |-> <<>>]>>,
     <<[domain |-> NameE, hosts |-> <<>>], [domain |-> NameSE, hosts |-> <<>>]>>,
     <<[domain |-> NameSE, hosts |-> <<>>], [domain |-> NameE, hosts |-> <<>>]>>}

Preauths ==
    [domain : {NameE, NameSE}, host : {NameE, NameSE}, prefix : {PathRoot, PathX}]

InitRoute ==
    /\ domains \in Configurations
    /\ alive = {}
    /\ nextConn = 1
    /\ lookup = NoLookup
    /\ PeekIdle
    /\ HttpIdle
    /\ CodecIdle
    /\ BridgeIdle
    /\ RespIdle
    /\ LimitIdle
    /\ ServeIdle
    /\ LoopIdle
    /\ DecoderIdle
    /\ KeepIdle
    /\ ProbeIdle
    /\ DispatchIdle

NextRoute ==
    \/ \E p \in Preauths : AddPreauthedOp(p)
    \/ \E host \in {NameE, NameSE, NameASE}, path \in {PathRoot, PathXY, PathY} :
           RouteBegin(host, path)
    \/ RouteRetain
    \/ RouteFind
    \/ \E c \in 1..MaxConns : DropStrong(c)

SpecRoute == InitRoute /\ [][NextRoute]_vars

IsSuffixOf(suffix, s) == EndsWith(s, suffix)

\* The routes of the chosen host that the latest lookup could have taken
Candidates(lk) ==
    LET rs == domains[lk.d].hosts[lk.h].routes
    IN  {i \in 1..Len(rs) : IsPrefixOf(rs[i].prefix, lk.path)}

\* C2: once the host is matched, the route taken is one whose prefix starts the
\* path and no other such route of that host has a longer prefix; a route is
\* taken whenever one matches.
C2_LongestPrefixWins ==
    lookup.h # 0 =>
        LET rs == domains[lookup.d].hosts[lookup.h].routes
        IN  /\ (Candidates(lookup) = {}) <=> (lookup.r = 0)
            /\ lookup.r # 0 =>
                   /\ lookup.r \in Candidates(lookup)
                   /\ \A i \in Candidates(lookup) :
                          Len(rs[i].prefix) <= Len(rs[lookup.r].prefix)

\* C2 witness: a host with the routes "/" and "/x", asked for "/xy", takes "/x"
C2_Witness ==
    /\ lookup.r # 0
    /\ lookup.path = PathXY
    /\ Cardinality(Candidates(lookup)) = 2
    /\ domains[lookup.d].hosts[lookup.h].routes[lookup.r].prefix = PathX

\* C3: the lookup uses a domain that is a suffix of the request host and that
\* is the longest such domain; it finds none only when no domain is a suffix.
C3_LongestSuffixDomain ==
    lookup.started =>
        LET sfx == {i \in 1..Len(domains) : IsSuffixOf(domains[i].domain, lookup.host)}
        IN  /\ (sfx = {}) <=> (lookup.d = 0)
            /\ lookup.d # 0 =>
                   /\ lookup.d \in sfx
                   /\ \A i \in sfx : Len(domains[i].domain) <= Len(domains[lookup.d].domain)

\* C4: a lookup never returns an upstream whose strong reference was already
\* dropped when the lookup started.
C4_NoDeadUpstream ==
    lookup.result # 0 => lookup.result \in lookup.aliveAtStart

\* C4 witness: the route held a dead upstream when the lookup started, and the
\* lookup returned another, live one
C4_Witness ==
    /\ lookup.pc = "idle"
    /\ lookup.result # 0
    /\ \E i \in 1..Len(lookup.connsAtStart) : lookup.connsAtStart[i] \notin lookup.aliveAtStart

(***************************************************************************)
(* The dispatcher (lib.rs): accept_incoming handles one connection after   *)
(* the other, each to the end of handle_incoming, so a handler is one      *)
(* step.  The Persist store holds Preauthed records under ReconnectKeys;   *)
(* nothing in the balancer removes one.  Only records of configured        *)
(* domains are stored (add_preauthed's expect() is a fault otherwise).     *)
(***************************************************************************)
PREAUTH_LEN == 12

\* b"lolb"
PREAUTH_PREFIX == <<108, 111, 108, 98>>

\* Duration::from_secs(10), in milliseconds
VALID_MILLIS == 10000

\* Cursor::get_u64_be over the 8 bytes after the prefix
GetU64Be(bytes) ==
    LET acc[i \in 0..Len(bytes)] == IF i = 0 THEN 0 ELSE acc[i - 1] * 256 + bytes[i]
    IN  acc[Len(bytes)]

\* PreAuthed::is_valid at time t, the outcomes a build can give.  The age is
\* `current_time_millis() - self.created` on u64: for a record stamped later
\* than the clock reads, the subtraction panics where overflow is checked and
\* wraps to about 2^64 ms where it is not, which is not below 10 s.
IsValid(p, t) ==
    IF p.created > t THEN {"panic", FALSE}
    ELSE {(t - p.created) < VALID_MILLIS}

\* persist::load_preauthed: Some(record) or None; the store is only read
LoadPreauthed(store, key) == IF key \in DOMAIN store THEN store[key] ELSE NoRecord

\* lib.rs:97-136: which way handle_incoming goes once it has peeked `read`
\* bytes into `peeked` and, for a "lolb" prefix, loaded `authed`
IncomingBranchFallThrough(read, peeked, authed) ==
    IF read < PREAUTH_LEN THEN "short"
    ELSE IF SubSeq(peeked, 1, 4) = PREAUTH_PREFIX /\ authed # NoRecord THEN "service"
    ELSE "client"

IncomingBranch(read, peeked, authed) ==
    IF read < PREAUTH_LEN THEN "short"
    ELSE IF SubSeq(peeked, 1, 4) = PREAUTH_PREFIX
         THEN IF authed # NoRecord THEN "service" ELSE "no_preauth"
         ELSE "client"

\* lib.rs:117: conn.socket().read(&mut peeked), discarding the preauth
DiscardPrefixOnly(p) == PollRead(p, Len(PREAUTH_PREFIX))

DiscardPreauth(p) == PollRead(p, PREAUTH_LEN)

\* Services::route in one piece, for a caller that holds the mutex while no
\* strong reference is dropped
RouteAtomic(ds, live, host, path) ==
    LET sel == RouteSelect(ds, live, host, path)
    IN  IF sel.r = 0 THEN [ds |-> ds, lk |-> sel]
        ELSE LET kept == Retain(RouteConns(ds, sel), live)
             IN  [ds |-> [ds EXCEPT ![sel.d].hosts[sel.h].routes[sel.r].connections = kept],
                  lk |-> [sel EXCEPT !.pc = "idle", !.result = FirstLive(kept, live)]]

\* what handle_incoming of loop l decided: `last` once it has ended, or has
\* handed the connection to handle_client
Decided(l, branch, result, stored, rd, register, ds) ==
    LET c == conn[l]
        isLolb == c.read >= PREAUTH_LEN /\ SubSeq(c.peeked, 1, 4) = PREAUTH_PREFIX
    IN  [loop |-> l, branch |-> branch, result |-> result,
         lolb |-> isLolb,
         key |-> IF isLolb THEN GetU64Be(SubSeq(c.peeked, 5, PREAUTH_LEN)) ELSE 0,
         hadRecord |-> isLolb /\ stored # NoRecord,
         consumed |-> rd.out,
         rest |-> BufferedBytes(rd.p) \o Flatten(rd.p.wrapped),
         sent |-> c.sent,
         registered |-> register,
         domainsBefore |-> domains, domainsAfter |-> ds]

\* lib.rs:69: provider.accept() of loop l hands over a connection whose peer
\* writes `bytes`, arriving as `wire`; handle_incoming starts on it
AcceptIncoming(l, bytes, wire) ==
    /\ conn[l].pc = "none"
    /\ accepted < MaxAccepts
    /\ accepted' = accepted + 1
    /\ conn' = [conn EXCEPT ![l] = [NoConn EXCEPT !.pc = "peek", !.sent = bytes,
                                                  !.socket = PeekableNew(wire)]]
    /\ UNCHANGED <<persist, now, ticks, last, regs, serviceUp, routeVars, notDispatch>>

\* lib.rs:93-105, 131-134: the peek of PREAUTH_LEN bytes answers; a short
\* stream is an error, a "lolb" prefix goes on to the store, anything else is
\* a client's connection
IncomingPeek(l) ==
    /\ conn[l].pc = "peek"
    /\ \E pk \in {Peek(conn[l].socket, PREAUTH_LEN, Never)} :
       LET read == Len(pk.out)
           peeked == pk.out \o Zeros(PREAUTH_LEN - read)
           c == [conn[l] EXCEPT !.socket = pk.p, !.read = read, !.peeked = peeked]
           branch == IncomingBranch(read, peeked, NoRecord)
           rd == [p |-> pk.p, out |-> <<>>]
       IN  IF read >= PREAUTH_LEN /\ SubSeq(peeked, 1, 4) = PREAUTH_PREFIX
           THEN /\ conn' = [conn EXCEPT ![l] = [c EXCEPT !.pc = "load"]]
                /\ last' = last
           ELSE /\ conn' = [conn EXCEPT ![l] = IF branch = "client"
                                               THEN [c EXCEPT !.pc = "client"]
                                               ELSE NoConn]
                \* not a connection with the prefix: `lolb` of it is FALSE
                /\ last' = Decided(l, branch,
                                   IF branch = "client" THEN "pending" ELSE "err_owned",
                                   NoRecord, rd, FALSE, domains)
    /\ UNCHANGED <<persist, now, ticks, accepted, regs, serviceUp, routeVars, notDispatch>>

\* lib.rs:109-128: under the mutex, load_preauthed looks the key up.  loadOk:
\* Persist.load answered (the environment's choice).
IncomingLoad(l) ==
    /\ conn[l].pc = "load"
    /\ LET c == conn[l]
           key == GetU64Be(SubSeq(c.peeked, 5, PREAUTH_LEN))
           stored == LoadPreauthed(persist, key)
       IN  \E loadOk \in BOOLEAN :
           LET authed == IF loadOk THEN stored ELSE NoRecord
               branch == IF ~loadOk THEN "load_err"
                         ELSE IncomingBranch(c.read, c.peeked, authed)
               rd == [p |-> c.socket, out |-> <<>>]
           IN  IF branch = "service"
               THEN /\ conn' = [conn EXCEPT ![l] = [c EXCEPT !.pc = "discard",
                                                             !.authed = authed, !.at = now]]
                    /\ last' = last
               ELSE /\ conn' = [conn EXCEPT ![l] = IF branch = "client"
                                                   THEN [c EXCEPT !.pc = "client"]
                                                   ELSE NoConn]
                    /\ last' = Decided(l, branch,
                                       CASE branch = "client" -> "pending"
                                         [] branch = "no_preauth" -> "err_message"
                                         [] branch = "load_err" -> "err_persist",
                                       stored, rd, FALSE, domains)
    /\ UNCHANGED <<persist, now, ticks, accepted, regs, serviceUp, routeVars, notDispatch>>

\* lib.rs:117-120: the preauth is read off the socket; fewer bytes than were
\* peeked is a panic
IncomingDiscard(l) ==
    /\ conn[l].pc = "discard"
    /\ LET c == conn[l]
           rd == DiscardPreauth(c.socket)
       IN  IF Len(rd.out) < PREAUTH_LEN
           THEN /\ conn' = [conn EXCEPT ![l] = NoConn]
                /\ last' = Decided(l, "service", "panic", c.authed, rd, FALSE, domains)
           ELSE /\ conn' = [conn EXCEPT ![l] = [c EXCEPT !.pc = "handshake", !.socket = rd.p,
                                                         !.consumed = rd.out]]
                /\ last' = last
    /\ UNCHANGED <<persist, now, ticks, accepted, regs, serviceUp, routeVars, notDispatch>>

\* lib.rs:139-173 add_preauthed_service: the h2 client handshake answers and,
\* under the mutex, the upstream is registered.  handshakeOk: the handshake
\* succeeded (the environment's choice).
AddPreauthedService(l) ==
    /\ conn[l].pc = "handshake"
    /\ \E handshakeOk \in BOOLEAN :
       LET c == conn[l]
           ds == IF handshakeOk THEN ServicesAddPreauthed(domains, c.authed, nextConn)
                 ELSE domains
           rd == [p |-> c.socket, out |-> c.consumed]
       IN  /\ domains' = ds
           /\ nextConn' = IF handshakeOk THEN nextConn + 1 ELSE nextConn
           \* the strong Arc moves into `drive`, which is never spawned and
           \* is dropped when add_preauthed_service returns
           /\ alive' = alive
           /\ regs' = IF handshakeOk
                      THEN Append(regs, [key |-> GetU64Be(SubSeq(c.peeked, 5, PREAUTH_LEN)),
                                         conn |-> nextConn,
                                         age |-> c.at - c.authed.created,
                                         valid |-> IsValid(c.authed, c.at) = {TRUE},
                                         p |-> c.authed])
                      ELSE regs
           /\ serviceUp' = IF handshakeOk THEN serviceUp \cup {nextConn} ELSE serviceUp
           /\ conn' = [conn EXCEPT ![l] = NoConn]
           /\ last' = Decided(l, "service", IF handshakeOk THEN "ok" ELSE "err_h2",
                              c.authed, rd, handshakeOk, ds)
    /\ UNCHANGED <<persist, now, ticks, accepted, lookup, notDispatch>>

\* handle_incoming (lib.rs:81-137) of loop l, from one await to the next
HandleIncoming(l) ==
    \/ IncomingPeek(l)
    \/ IncomingLoad(l)
    \/ IncomingDiscard(l)
    \/ AddPreauthedService(l)

\* lib.rs:274-285 request_to_service: a request of the client connection is
\* routed under the mutex
ClientRequest(l, host, path) ==
    /\ conn[l].pc = "client"
    /\ LET r == RouteAtomic(domains, alive, host, path)
       IN  /\ domains' = r.ds
           /\ lookup' = r.lk
    /\ UNCHANGED <<alive, nextConn, dispVars, notDispatch>>

\* handle_client returns; the connection and its request are dropped
ClientDone(l) ==
    /\ conn[l].pc = "client"
    /\ conn' = [conn EXCEPT ![l] = NoConn]
    /\ lookup' = NoLookup
    /\ UNCHANGED <<persist, now, ticks, accepted, last, regs, serviceUp,
                   domains, alive, nextConn, notDispatch>>

\* time passes
Tick(d) ==
    /\ ticks < MaxTicks
    /\ ticks' = ticks + 1
    /\ now' = now + d
    /\ UNCHANGED <<persist, accepted, conn, last, regs, serviceUp, routeVars, notDispatch>>

\* a registered service closes its end of the connection
ServiceHangup(c) ==
    /\ c \in serviceUp
    /\ serviceUp' = serviceUp \ {c}
    /\ UNCHANGED <<persist, now, ticks, accepted, conn, last, regs, routeVars, notDispatch>>

\* The inputs.  A service writes "lolb", its key as 8 big-endian bytes, and
\* goes on with HTTP/2 frames; a client writes a request.
KeyBytes(k) == <<0, 0, 0, 0, 0, 0, k \div 256, k % 256>>

LolbStream(k) == PREAUTH_PREFIX \o KeyBytes(k) \o <<0, 0, 4>>

\* "GET / HTTP/1.1"
ClientStream == <<71, 69, 84, 32, 47, 32, 72, 84, 84, 80, 47, 49, 46, 49>>

\* a service that hangs up inside its key
ShortStream == PREAUTH_PREFIX \o <<0, 0, 1>>

PersistKeys == {1, 258, 513}

InputStreams ==
    {LolbStream(k) : k \in PersistKeys} \cup {ClientStream, ShortStream}

\* in one segment; in two, cut right behind the preauth; or byte by byte
Arrivals(s) ==
    {<<s>>} \cup {<<Take(s, k), Drop(s, k)>> : k \in {PREAUTH_LEN} \cap 1..(Len(s) - 1)}
            \cup {[i \in 1..Len(s) |-> <<s[i]>>]}

DispatchConfigurations ==
    {<<[domain |-> NameE, hosts |-> <<>>]>>,
     <<[domain |-> NameSE, hosts |-> <<>>], [domain |-> NameE, hosts |-> <<>>]>>}

StoredRecords(ds) ==
    [created : {0}, domain : {ds[i].domain : i \in 1..Len(ds)},
     host : {NameSE}, prefix : {PathX}]

Stores(ds) ==
    {st \in [PersistKeys -> StoredRecords(ds) \cup {NoRecord}] :
        st[1] # NoRecord /\ st[513] = NoRecord}

InitDispatch ==
    /\ domains \in DispatchConfigurations
    /\ alive = {}
    /\ nextConn = 1
    /\ lookup = NoLookup
    /\ persist \in Stores(domains)
    /\ now = 0
    /\ ticks = 0
    /\ accepted = 0
    /\ conn = [l \in AcceptLoops |-> NoConn]
    /\ last = NoLast
    /\ regs = <<>>
    /\ serviceUp = {}
    /\ PeekIdle
    /\ HttpIdle
    /\ CodecIdle
    /\ BridgeIdle
    /\ RespIdle
    /\ LimitIdle
    /\ ServeIdle
    /\ LoopIdle
    /\ DecoderIdle
    /\ KeepIdle
    /\ ProbeIdle

NextDispatch ==
    \/ \E l \in AcceptLoops : \E s \in InputStreams : \E w \in Arrivals(s) : AcceptIncoming(l, s, w)
    \/ \E l \in AcceptLoops : HandleIncoming(l)
    \/ \E l \in AcceptLoops : ClientRequest(l, NameSE, PathXY)
    \/ \E l \in AcceptLoops : ClientDone(l)
    \/ Tick(VALID_MILLIS)
    \/ \E c \in 1..MaxAccepts : ServiceHangup(c)

SpecDispatch == InitDispatch /\ [][NextDispatch]_vars

\* C5: every upstream the dispatcher registered is, while its service stays
\* connected, a live weak reference of the registry, and a lookup for its
\* host and a path under its prefix returns an upstream.
C5_RegisteredUpstreamRoutable ==
    \A i \in 1..Len(regs) :
        regs[i].conn \in serviceUp =>
            /\ Upgrade(regs[i].conn, alive)
            /\ RouteAtomic(domains, alive, regs[i].p.host, regs[i].p.prefix).lk.result # 0

\* C6: no key is registered twice, and a key that was redeemed is gone from
\* the store.
C6_KeyRedeemsOnce ==
    /\ \A i, j \in 1..Len(regs) : i # j => regs[i].key # regs[j].key
    /\ \A i \in 1..Len(regs) : LoadPreauthed(persist, regs[i].key) = NoRecord

\* C7: every upstream was registered from a record that was valid, younger
\* than 10 s, when its key was presented.
C7_ExpiredRecordRejected ==
    \A i \in 1..Len(regs) : regs[i].valid /\ regs[i].age < VALID_MILLIS

\* C8: a connection that starts with "lolb" and whose key has no record ends
\* in an error, is not handed to handle_client and leaves the registry as it
\* was.
C8_LolbWithoutPreauthRejected ==
    (last.lolb /\ ~last.hadRecord) =>
        /\ last.result \in {"err_message", "err_persist"}
        /\ last.branch # "client"
        /\ conn[last.loop].pc # "client"
        /\ ~last.registered
        /\ last.domainsAfter = last.domainsBefore

\* C8 witness: such a connection has been handled and got the no-preauth error
C8_Witness ==
    /\ last.lolb /\ ~last.hadRecord
    /\ last.key = 513
    /\ last.result = "err_message"

\* C9: the dispatcher consumes the 12 preauth bytes, and only them, exactly on
\* the service path; on every other path it consumes nothing, and what a
\* later reader of the socket gets is the stream from its first byte.
C9_ConsumesPreauthOnly ==
    last.branch # "none" =>
        /\ (last.branch = "service") <=> (last.consumed # <<>>)
        /\ last.branch = "service" =>
               /\ last.consumed = SubSeq(last.sent, 1, PREAUTH_LEN)
               /\ last.rest = SubSeq(last.sent, PREAUTH_LEN + 1, Len(last.sent))
        /\ last.branch = "client" =>
               /\ last.rest = last.sent
               /\ \A l \in AcceptLoops :
                      conn[l].pc = "client" =>
                          BufferedBytes(conn[l].socket) \o Flatten(conn[l].socket.wrapped) = conn[l].sent

\* C9 witness: a redeemed key, 12 bytes consumed, and bytes left behind them
C9_Witness ==
    /\ last.branch = "service"
    /\ Len(last.consumed) = PREAUTH_LEN
    /\ last.rest # <<>>

\* C9 second witness state: a client connection with nothing consumed
C9_ClientWitness ==
    /\ last.branch = "client"
    /\ last.consumed = <<>>
    /\ conn[last.loop].pc = "client"

(***************************************************************************)
(* The chunked codec (chunked.rs).  The decoder reads its socket, here a   *)
(* Peekable, through read_exact; the encoder's socket is the sequence of   *)
(* bytes written to it.                                                    *)
(***************************************************************************)
MAX_READ_SIZE == 1048576

\* AsyncReadExt::read_exact with buf.len() = n: reads until n bytes are there;
\* a read of 0 bytes before that is an UnexpectedEof error
RECURSIVE ReadExact(_, _)
ReadExact(p, n) ==
    IF n = 0 THEN [p |-> p, out |-> <<>>, ok |-> TRUE]
    ELSE LET Joined(r, more) == [p |-> more.p, out |-> r.out \o more.out, ok |-> more.ok]
             After(r) == IF r.out = <<>> THEN [p |-> r.p, out |-> <<>>, ok |-> FALSE]
                         ELSE Joined(r, ReadExact(r.p, n - Len(r.out)))
         IN  After(PollRead(p, n))

\* the socket after n of its bytes were read one by one and thrown away
RECURSIVE WireDrop(_, _)
WireDrop(wire, n) ==
    IF n = 0 \/ wire = <<>> THEN wire
    ELSE IF n >= Len(Head(wire)) THEN WireDrop(Tail(wire), n - Len(Head(wire)))
    ELSE <<SubSeq(Head(wire), n + 1, Len(Head(wire)))>> \o Tail(wire)

Discard(p, n) ==
    LET fromData == Min(n, Len(p.buffered))
        fromPadding == Min(n - fromData, p.padding)
    IN  [wrapped |-> WireDrop(p.wrapped, n - fromData - fromPadding),
         buffered |-> SubSeq(p.buffered, fromData + 1, Len(p.buffered)),
         padding |-> p.padding - fromPadding]

\* chunked.rs:81-91 skip_until_lf: one-byte reads up to and with the first
\* b'\n'; an error when the stream ends before one.  The 0x0 bytes of the
\* Peekable's padding are read and skipped like any other byte.
SkipUntilLf(p) ==
    LET Skip(i, j, len) ==
            IF i # 0 THEN [p |-> Discard(p, i), ok |-> TRUE]
            ELSE [p |-> Discard(p, BufferedLen(p) + (IF j # 0 THEN j ELSE len)), ok |-> j # 0]
        InWire(wire) == Skip(IndexOf(p.buffered, <<10>>), IndexOf(wire, <<10>>), Len(wire))
    IN  InWire(Flatten(p.wrapped))

\* char::is_numeric of a byte taken as a char: the decimal digits and the
\* Latin-1 superscripts and fractions
IsNumeric(c) == c \in 48..57 \/ c \in {178, 179, 185, 188, 189, 190}

\* chunked.rs:53-60: read byte by byte up to and with the first byte that is
\* not numeric
RECURSIVE ReadSizeDigits(_, _)
ReadSizeDigits(p, buf) ==
    LET After(r) ==
            IF ~r.ok THEN [p |-> r.p, buf |-> buf, ok |-> FALSE]
            ELSE IF ~IsNumeric(r.out[1]) THEN [p |-> r.p, buf |-> buf \o r.out, ok |-> TRUE]
            ELSE ReadSizeDigits(r.p, buf \o r.out)
    IN  After(ReadExact(p, 1))

\* str::trim: without the white space at both ends
IsWhitespace(c) == c \in 9..13 \/ c = 32

RECURSIVE TrimEnd(_)
TrimEnd(s) == IF s # <<>> /\ IsWhitespace(s[Len(s)]) THEN TrimEnd(SubSeq(s, 1, Len(s) - 1)) ELSE s

RECURSIVE TrimWhitespace(_)
TrimWhitespace(s) ==
    IF s # <<>> /\ IsWhitespace(Head(s)) THEN TrimWhitespace(Tail(s)) ELSE TrimEnd(s)

HexValue(c) ==
    IF c \in 48..57 THEN c - 48
    ELSE IF c \in 97..102 THEN c - 87
    ELSE IF c \in 65..70 THEN c - 55
    ELSE -1

\* String::from_utf8(buf) then usize::from_str_radix(trimmed, 16): an optional
\* '+' and at least one hexadecimal digit, -1 for None, which a number above
\* usize::MAX is too
ParseHexUsize(buf) ==
    LET t == TrimWhitespace(buf)
        digits == IF t # <<>> /\ Head(t) = 43 THEN Tail(t) ELSE t
        value[i \in 0..Len(digits)] ==
            IF i = 0 THEN 0 ELSE value[i - 1] * 16 + HexValue(digits[i])
    IN  IF \E i \in 1..Len(buf) : buf[i] >= 128 THEN -1
        ELSE IF digits = <<>> \/ \E i \in 1..Len(digits) : HexValue(digits[i]) = -1 THEN -1
        ELSE IF Len(StripZeros(digits)) > Len(USIZE_MAX_HEX) THEN -1
        ELSE value[Len(digits)]

\* chunked.rs:48-78 read_chunk_size: size -1 for Err
ReadChunkSize(p) ==
    LET Skipped(d, k) ==
            IF ~k.ok THEN [p |-> k.p, size |-> -1]
            ELSE IF d.buf = <<>> THEN [p |-> k.p, size |-> 0]
            ELSE [p |-> k.p, size |-> ParseHexUsize(d.buf)]
        After(d) == IF ~d.ok THEN [p |-> d.p, size |-> -1] ELSE Skipped(d, SkipUntilLf(d.p))
    IN  After(ReadSizeDigits(p, <<>>))

\* ChunkedDecoder::new
ChunkedDecoderNew == [amount_left |-> 0]

\* chunked.rs:23-45 ChunkedDecoder::data over the socket p, reading at most
\* max_read bytes of a chunk in one call.  kind "some": Some(Ok(out));
\* "none": None; "err": Some(Err(..))
DecoderDataMax(dec, p, max_read) ==
    LET Skipped(left, r, k) ==
            IF ~k.ok THEN [dec |-> left, p |-> k.p, kind |-> "err", out |-> <<>>]
            ELSE [dec |-> left, p |-> k.p, kind |-> "some", out |-> r.out]
        Read(left, r) ==
            IF ~r.ok THEN [dec |-> left, p |-> r.p, kind |-> "err", out |-> <<>>]
            ELSE Skipped(left, r, SkipUntilLf(r.p))
        Sized(cs, to_read) ==
            IF cs.size = -1 THEN [dec |-> dec, p |-> cs.p, kind |-> "err", out |-> <<>>]
            ELSE IF cs.size = 0 THEN [dec |-> dec, p |-> cs.p, kind |-> "none", out |-> <<>>]
            ELSE Read([dec EXCEPT !.amount_left = cs.size - to_read], ReadExact(cs.p, to_read))
        After(cs) == Sized(cs, Min(cs.size, max_read))
    IN  After(IF dec.amount_left = 0 THEN ReadChunkSize(p)
              ELSE [p |-> p, size |-> dec.amount_left])

\* the decoder as built: max_read is MAX_READ_SIZE (chunked.rs:13)
DecoderData(dec, p) == DecoderDataMax(dec, p, MAX_READ_SIZE)

\* format!("{}", n): n in decimal
RECURSIVE Decimal(_)
Decimal(n) == IF n < 10 THEN <<48 + n>> ELSE Append(Decimal(n \div 10), 48 + (n % 10))

\* chunked.rs:117-124 ChunkedEncoder::send_chunk: what it writes
SendChunk(buf) == Decimal(Len(buf)) \o Crlf \o buf \o Crlf

\* chunked.rs:125-129 ChunkedEncoder::send_finish: b"0\r\n\r\n"
SendFinish == <<48>> \o Crlf \o Crlf

(***************************************************************************)
(* The HTTP/1.1 request reader: parse_http11 (http11.rs) on a client       *)
(* connection, then RecvBody::data (body.rs) on the request's body, a      *)
(* LimitRead (limit.rs) over the connection's Peekable.                    *)
(***************************************************************************)
HTTP11_PARSE_BUF_SIZE == 16384

BUF_SIZE == 16384

\* LimitRead::new(source, limit)
LimitReadNew(limit) == [kind |-> "plain", read |-> 0, limit |-> limit, amount_left |-> 0]

\* limit.rs:26-35 LimitRead::poll_read with buf.len() = n, over the Peekable
\* p; self.read is left as it is
LimitReadPollRead(body, p, n) ==
    LET Read(r) == [body |-> body, p |-> r.p, out |-> r.out]
    IN  Read(PollRead(p, Min(body.limit - body.read, n)))

\* body.rs:36-51 read_chunk: None for a read of 0 bytes, else the bytes read
ReadChunk(body, p) ==
    LET Chunk(r) == [body |-> r.body, p |-> r.p, none |-> Len(r.out) = 0, out |-> r.out]
    IN  Chunk(LimitReadPollRead(body, p, BUF_SIZE))

\* http11.rs:14-78 parse_http11 on the Peekable p.  result "request":
\* Ok(Some(req)); "eof": Ok(None); "err": Err(..)
ParseHttp11(p) ==
    LET Taken(result, rd) ==
            \* headers_mut().remove("transfer-encoding")
            [result |-> "request", p |-> rd.p,
             req |-> [result EXCEPT !.headers =
                          HeaderRemove(result.headers, TRANSFER_ENCODING)],
             body |-> IF RecvChunked(result)
                      THEN [NoBody EXCEPT !.kind = "chunked",
                                          !.amount_left = ChunkedDecoderNew.amount_left]
                      ELSE LimitReadNew(ContentLen(result))]
        Parsed(pk, result) ==
            IF result.status = "err"
            THEN [result |-> "err", p |-> pk.p, req |-> NoRequest, body |-> NoBody]
            ELSE IF result.status = "partial"
            THEN [result |-> IF Len(pk.out) < HTTP11_PARSE_BUF_SIZE THEN "eof" ELSE "err",
                  p |-> pk.p, req |-> NoRequest, body |-> NoBody]
            ELSE Taken(result, PollRead(pk.p, result.head_len))
        Peeked(pk) == Parsed(pk, TryParseHttp11(pk.out))
    IN  Peeked(Peek(p, HTTP11_PARSE_BUF_SIZE, HeadParsed))

\* handle_client's HTTP/1.1 loop reads the next request of the connection
ParseRequest ==
    /\ http.pc = "accepted"
    /\ \E r \in {ParseHttp11(http.socket)} :
           http' = [http EXCEPT !.pc = IF r.result = "request" THEN "body" ELSE r.result,
                                !.socket = r.p, !.req = r.req, !.body = r.body]
    /\ UNCHANGED notHttp

\* RecvBody::data (body.rs:20-26): read_chunk on the Http11Plain body, the
\* ChunkedDecoder's data on the Http11Chunked body
RecvBodyData(body, p) ==
    LET Plain(r) ==
            [body |-> r.body, p |-> r.p, kind |-> IF r.none THEN "none" ELSE "some", out |-> r.out]
        Chunked(r) ==
            [body |-> [body EXCEPT !.amount_left = r.dec.amount_left], p |-> r.p,
             kind |-> r.kind, out |-> r.out]
    IN  IF body.kind = "plain" THEN Plain(ReadChunk(body, p))
        ELSE Chunked(DecoderData([amount_left |-> body.amount_left], p))

\* the request's consumer calls data() on its body
BodyData ==
    /\ http.pc = "body"
    /\ ~http.failed
    /\ http.calls < MaxDataCalls
    /\ \E r \in {RecvBodyData(http.body, http.socket)} :
           http' = [http EXCEPT !.socket = r.p, !.body = r.body,
                                !.yielded = http.yielded \o r.out,
                                !.calls = http.calls + 1,
                                !.ended = http.ended \/ r.kind = "none",
                                !.afterEnd = http.afterEnd \/ (http.ended /\ r.kind = "some"),
                                !.failed = r.kind = "err"]
    /\ UNCHANGED notHttp

\* The inputs: "POST /a HTTP/1.1", "Host: x.example", a Content-Length of n
\* or none, the empty line, and what the client sends behind it.
RequestLine == <<80, 79, 83, 84, 32, 47, 97, 32, 72, 84, 84, 80, 47, 49, 46, 49>>

HostLine == <<72, 111, 115, 116, 58, 32, 120, 46, 101, 120, 97, 109, 112, 108, 101>>

\* "Content-Length: n"
ContentLengthLine(n) == <<67, 111, 110, 116, 101, 110, 116, 45, 76, 101, 110, 103, 116, 104, 58, 32>> \o Decimal(n)

RequestHead(n) ==
    RequestLine \o Crlf \o HostLine \o Crlf
        \o (IF n < 0 THEN <<>> ELSE ContentLengthLine(n) \o Crlf) \o Crlf

\* a head with one header line "name: value" behind the host
RequestHeadWith(name, value) ==
    RequestLine \o Crlf \o HostLine \o Crlf \o name \o <<58, 32>> \o value \o Crlf \o Crlf

\* "Transfer-Encoding", "Content-Length"
TransferEncodingName == <<84, 114, 97, 110, 115, 102, 101, 114, 45, 69, 110, 99, 111, 100, 105, 110, 103>>

ContentLengthName == <<67, 111, 110, 116, 101, 110, 116, 45, 76, 101, 110, 103, 116, 104>>

\* "chunked", "Chunked", "gzip, chunked", "gzip"
TransferEncodings == {<<99, 104, 117, 110, 107, 101, 100>>,
                      <<67, 104, 117, 110, 107, 101, 100>>,
                      <<103, 122, 105, 112, 44, 32, 99, 104, 117, 110, 107, 101, 100>>,
                      <<103, 122, 105, 112>>}

\* "abc", "-1", "1x", "1.5", "": no usize
MalformedLengths == {<<97, 98, 99>>, <<45, 49>>, <<49, 120>>, <<49, 46, 53>>, <<>>}

\* n in hexadecimal
RECURSIVE Hexadecimal(_)
Hexadecimal(n) ==
    LET digit(d) == IF d < 10 THEN 48 + d ELSE 87 + d
    IN  IF n < 16 THEN <<digit(n)>> ELSE Append(Hexadecimal(n \div 16), digit(n % 16))

\* the pieces of body that lens cuts it into, in order
RECURSIVE Pieces(_, _)
Pieces(body, lens) ==
    IF lens = <<>> THEN <<>>
    ELSE <<SubSeq(body, 1, Head(lens))>> \o Pieces(SubSeq(body, Head(lens) + 1, Len(body)), Tail(lens))

RECURSIVE Sum(_)
Sum(lens) == IF lens = <<>> THEN 0 ELSE Head(lens) + Sum(Tail(lens))

\* a chunked body as a client writes it: each chunk as its length in
\* hexadecimal, CRLF, the payload, CRLF; then "0" CRLF CRLF
RECURSIVE ChunkedWire(_)
ChunkedWire(chunks) ==
    IF chunks = <<>> THEN <<48>> \o Crlf \o Crlf
    ELSE Hexadecimal(Len(Head(chunks))) \o Crlf \o Head(chunks) \o Crlf \o ChunkedWire(Tail(chunks))

\* the chunk lengths of the request bodies: none, one short chunk, and 3 then
\* MaxChunkLen bytes ("hel", "lo world!!!")
RequestChunkings == {<<>>, <<1>>, <<3, MaxChunkLen>>}

\* "hello..." and so on, as far as needed
Payload(k) == [i \in 1..k |-> 97 + ((i + 6) % 26)]

\* the head in one segment or cut in two, the bytes behind it in the head's
\* last segment, in a segment of their own, or one by one
HttpArrivals(head, rest) ==
    LET heads == {<<head>>, <<SubSeq(head, 1, Len(head) - 2), SubSeq(head, Len(head) - 1, Len(head))>>}
        joined == {SubSeq(h, 1, Len(h) - 1) \o <<h[Len(h)] \o rest>> : h \in heads}
        apart == {h \o (IF rest = <<>> THEN <<>> ELSE <<rest>>) : h \in heads}
        single == {h \o [i \in 1..Len(rest) |-> <<rest[i]>>] : h \in heads}
    IN  joined \cup apart \cup single

InitHttp ==
    /\ PeekIdle
    /\ RouteIdle
    /\ DispatchIdle
    /\ CodecIdle
    /\ BridgeIdle
    /\ RespIdle
    /\ LimitIdle
    /\ ServeIdle
    /\ LoopIdle
    /\ DecoderIdle
    /\ KeepIdle
    /\ ProbeIdle
    /\ \E n \in -1..MaxContentLen, k \in 0..(MaxContentLen + 1), cut \in {0, 2} :
       \* cut: the client hangs up before the head's empty line
       \E head \in {SubSeq(RequestHead(n), 1, Len(RequestHead(n)) - cut)} :
       \E w \in HttpArrivals(head, Payload(k)) :
           /\ cut = 0 \/ k = 0
           /\ http = [NoHttp EXCEPT !.pc = "accepted",
                                    !.sent = head \o Payload(k),
                                    !.declared = IF n < 0 THEN 0 ELSE n,
                                    !.cl = IF n < 0 THEN <<-1>> ELSE Decimal(n),
                                    !.socket = PeekableNew(w)]

\* requests with a Transfer-Encoding header and a chunked body behind the head
InitHttpChunked ==
    /\ PeekIdle
    /\ RouteIdle
    /\ DispatchIdle
    /\ CodecIdle
    /\ BridgeIdle
    /\ RespIdle
    /\ LimitIdle
    /\ ServeIdle
    /\ LoopIdle
    /\ DecoderIdle
    /\ KeepIdle
    /\ ProbeIdle
    /\ \E te \in TransferEncodings, lens \in RequestChunkings :
       \E head \in {RequestHeadWith(TransferEncodingName, te)} :
       \E rest \in {ChunkedWire(Pieces(Payload(Sum(lens)), lens))} :
       \E w \in HttpArrivals(head, rest) :
           http = [NoHttp EXCEPT !.pc = "accepted",
                                 !.sent = head \o rest,
                                 !.te = te,
                                 !.payload = Payload(Sum(lens)),
                                 !.socket = PeekableNew(w)]

\* requests whose Content-Length is no number, with bytes behind the head
InitHttpMalformed ==
    /\ PeekIdle
    /\ RouteIdle
    /\ DispatchIdle
    /\ CodecIdle
    /\ BridgeIdle
    /\ RespIdle
    /\ LimitIdle
    /\ ServeIdle
    /\ LoopIdle
    /\ DecoderIdle
    /\ KeepIdle
    /\ ProbeIdle
    /\ \E cl \in MalformedLengths, k \in 0..MaxContentLen :
       \E head \in {RequestHeadWith(ContentLengthName, cl)} :
       \E w \in HttpArrivals(head, Payload(k)) :
           http = [NoHttp EXCEPT !.pc = "accepted",
                                 !.sent = head \o Payload(k),
                                 !.cl = cl,
                                 !.socket = PeekableNew(w)]

NextHttp ==
    \/ ParseRequest
    \/ BodyData

SpecHttp == InitHttp /\ [][NextHttp]_vars

SpecHttpChunked == InitHttpChunked /\ [][NextHttp]_vars

SpecHttpMalformed == InitHttpMalformed /\ [][NextHttp]_vars

\* C10: the body of a request with Content-Length n never yields more than n
\* bytes, what it yields are the bytes behind the head on the wire, in order,
\* and once n bytes are there to be read it ends, with data() = None, after
\* exactly those n; nothing is yielded after the end.
C10_BodyYieldsContentLength ==
    (http.pc = "body" /\ http.body.kind = "plain") =>
        LET onWire == SubSeq(http.sent, http.req.head_len + 1, Len(http.sent))
        IN  /\ Len(http.yielded) <= http.declared
            /\ IsPrefixOf(http.yielded, onWire)
            /\ (http.ended /\ Len(onWire) >= http.declared)
                   => http.yielded = SubSeq(onWire, 1, http.declared)
            /\ ~http.afterEnd

\* C11: a request with Transfer-Encoding: chunked is read in chunked mode, the
\* normalized request carries no Transfer-Encoding header, and its body
\* yields the payloads of the chunks on the wire, in order, and then ends.
C11_ChunkedBodyDecoded ==
    (http.pc = "body" /\ ToAsciiLowercase(http.te) = CHUNKED) =>
        /\ http.body.kind = "chunked"
        /\ HeaderGet(http.req.headers, TRANSFER_ENCODING) = <<-1>>
        /\ ~http.failed
        /\ IsPrefixOf(http.yielded, http.payload)
        /\ http.ended => http.yielded = http.payload
        /\ ~http.afterEnd

(***************************************************************************)
(* SpecChunked: a ChunkedEncoder writes chunks and finishes; a             *)
(* ChunkedDecoder reads what was written.                                  *)
(***************************************************************************)
\* the chunk lengths an encoder is given: none, short, and MaxChunkLen
ChunkLens == {0, 1, 3, MaxChunkLen}

InitChunked ==
    /\ PeekIdle
    /\ RouteIdle
    /\ DispatchIdle
    /\ HttpIdle
    /\ BridgeIdle
    /\ RespIdle
    /\ LimitIdle
    /\ ServeIdle
    /\ LoopIdle
    /\ DecoderIdle
    /\ KeepIdle
    /\ ProbeIdle
    /\ \E lens \in SeqsUpTo(ChunkLens, MaxChunks) :
           codec = [NoCodec EXCEPT !.pc = "encoding",
                                   !.chunks = Pieces(Payload(Sum(lens)), lens)]

\* ChunkedEncoder::send_chunk with the next chunk
EncoderSendChunk ==
    /\ codec.pc = "encoding"
    /\ codec.sent < Len(codec.chunks)
    /\ codec' = [codec EXCEPT !.sent = codec.sent + 1,
                              !.written = codec.written \o SendChunk(codec.chunks[codec.sent + 1])]
    /\ UNCHANGED notCodec

\* ChunkedEncoder::send_finish behind the last chunk; what was written
\* reaches the decoder's socket in one segment or byte by byte
EncoderSendFinish ==
    /\ codec.pc = "encoding"
    /\ codec.sent = Len(codec.chunks)
    /\ \E out \in {codec.written \o SendFinish} :
       \E w \in {<<out>>, [i \in 1..Len(out) |-> <<out[i]>>]} :
           codec' = [codec EXCEPT !.pc = "decoding", !.written = out,
                                  !.socket = PeekableNew(w),
                                  !.amount_left = ChunkedDecoderNew.amount_left]
    /\ UNCHANGED notCodec

\* ChunkedDecoder::data
DecoderDataOp ==
    /\ codec.pc = "decoding"
    /\ ~codec.failed
    /\ ~codec.ended
    /\ codec.calls < MaxDataCalls
    /\ \E r \in {DecoderData([amount_left |-> codec.amount_left], codec.socket)} :
           codec' = [codec EXCEPT !.socket = r.p, !.amount_left = r.dec.amount_left,
                                  !.decoded = codec.decoded \o r.out,
                                  !.calls = codec.calls + 1,
                                  !.ended = r.kind = "none",
                                  !.failed = r.kind = "err"]
    /\ UNCHANGED notCodec

NextChunked ==
    \/ EncoderSendChunk
    \/ EncoderSendFinish
    \/ DecoderDataOp

SpecChunked == InitChunked /\ [][NextChunked]_vars

\* C12: what send_chunk(b1)..send_chunk(bk), send_finish wrote carries each
\* length in hexadecimal, and the decoder reading it yields b1..bk in order
\* without an error and ends behind the last of them.
C12_ChunkedRoundTrip ==
    codec.pc = "decoding" =>
        /\ codec.written = ChunkedWire(codec.chunks)
        /\ ~codec.failed
        /\ IsPrefixOf(codec.decoded, Flatten(codec.chunks))
        /\ codec.ended => codec.decoded = Flatten(codec.chunks)

\* the last token of a comma-separated header value, without the white space
\* around it
LastToken(value) ==
    LET tokens == SplitOn(value, <<44>>)
    IN  TrimWhitespace(tokens[Len(tokens)])

\* C13: the parser chooses chunked mode exactly when the last token of the
\* Transfer-Encoding value is "chunked", removes the header in every case,
\* and a request is in one of the two body modes.
C13_ChunkedIffLastToken ==
    (http.pc = "body" /\ http.te # <<-1>>) =>
        /\ (http.body.kind = "chunked") <=> (ToAsciiLowercase(LastToken(http.te)) = CHUNKED)
        /\ HeaderGet(http.req.headers, TRANSFER_ENCODING) = <<-1>>
        /\ http.body.kind \in {"chunked", "plain"}

\* C14: a request whose Content-Length value is no non-negative number is
\* refused by the parser; it does not become a request.
C14_MalformedLengthRefused ==
    (http.pc # "accepted" /\ http.cl # <<-1>> /\ ParseUsize(http.cl) = -1) =>
        http.pc = "err"

(***************************************************************************)
(* The HTTP/2 body bridge: the loop of ServiceConnection::send_request     *)
(* (serv_conn.rs) and of send_response_http2 (respond.rs), which forwards  *)
(* the chunks of a source body as data frames of an h2 SendStream.  The    *)
(* source yields its chunks and then None or an error; the destination     *)
(* answers each poll_capacity with the capacity it grants, and may be      *)
(* reset by its peer or break.                                             *)
(***************************************************************************)
\* actual_capacity.min(body_data.len())
SendLenWhole(actual_capacity, len) == len

SendLen(actual_capacity, len) == Min(actual_capacity, len)

\* body_data.slice_to(send_len)
SliceTo(body_data, send_len) == SubSeq(body_data, 1, send_len)

\* body_data.slice_from(send_len)
SliceFromEnd(body_data, send_len) == <<>>

SliceFrom(body_data, send_len) == SubSeq(body_data, send_len + 1, Len(body_data))

\* the chunk lengths of the source bodies: no chunk, one chunk, an empty
\* chunk before a long one, a long chunk before a short one
BridgeChunkLens == {<<>>, <<1>>, <<0, MaxBridgeChunk>>, <<MaxBridgeChunk, 1>>}

\* the capacities the destination grants: none, less than a long chunk, more
Capacities == {0, 1, MaxCapacity}

InitBridge ==
    /\ PeekIdle
    /\ RouteIdle
    /\ DispatchIdle
    /\ HttpIdle
    /\ CodecIdle
    /\ RespIdle
    /\ LimitIdle
    /\ ServeIdle
    /\ LoopIdle
    /\ DecoderIdle
    /\ KeepIdle
    /\ ProbeIdle
    /\ \E leg \in {"request", "response"}, lens \in BridgeChunkLens,
          fails \in BOOLEAN, end \in BOOLEAN :
           /\ end => (leg = "response" /\ lens = <<>> /\ ~fails)
           /\ bridge = [NoBridge EXCEPT !.pc = "start", !.leg = leg,
                                        !.source = Pieces(Payload(Sum(lens)), lens),
                                        !.sourceFails = fails, !.isEnd = end]

\* serv_conn.rs:26 h2.send_request(req, false); respond.rs:44-49
\* send_response(res, is_end) and the return when the body is at its end
BridgeStart ==
    /\ bridge.pc = "start"
    /\ bridge' = IF bridge.leg = "response" /\ bridge.isEnd
                 THEN [bridge EXCEPT !.pc = "done", !.headersEos = TRUE]
                 ELSE [bridge EXCEPT !.pc = "data"]
    /\ UNCHANGED notBridge

EndOfBodyNoBreak(b) == b

\* serv_conn.rs:48-53 and respond.rs:69-71: the source has ended, the empty
\* frame with end-of-stream is sent (send_data(.., true)?) and the loop is left
EndOfBody(b) ==
    IF b.dst # "open" THEN [b EXCEPT !.pc = "err"]
    ELSE [b EXCEPT !.pc = "done",
                   !.frames = Append(b.frames, [data |-> <<>>, eos |-> TRUE,
                                                available |-> 0, remaining |-> 0])]

\* serv_conn.rs:31-32, 48-53 and respond.rs:52-53, 69-71: body.data() gives
\* the next chunk, an error, or None, upon which the empty frame with
\* end-of-stream is sent
BridgeData ==
    /\ bridge.pc = "data"
    /\ bridge' =
           IF bridge.taken < Len(bridge.source)
           THEN LET chunk == bridge.source[bridge.taken + 1]
                IN  [bridge EXCEPT !.taken = bridge.taken + 1, !.body_data = chunk,
                                   !.pc = IF chunk = <<>> THEN "data" ELSE "capacity"]
           ELSE IF bridge.sourceFails THEN [bridge EXCEPT !.pc = "err"]
           ELSE EndOfBody(bridge)
    /\ UNCHANGED notBridge

\* how often the destination has answered a poll with a capacity of 0
ZeroGrants == Cardinality({i \in 1..Len(bridge.frames) :
                              ~bridge.frames[i].eos /\ bridge.frames[i].available = 0})

\* serv_conn.rs:36-46 and respond.rs:56-66: poll_capacity is Ready(Some(Ok(cap)))
CapacityGranted(cap) ==
    /\ bridge.pc = "capacity"
    /\ bridge.dst = "open"
    /\ cap = 0 => ZeroGrants < MaxZeroGrants
    /\ LET send_len == SendLen(cap, Len(bridge.body_data))
           rest == SliceFrom(bridge.body_data, send_len)
       IN  bridge' = [bridge EXCEPT
                         !.frames = Append(bridge.frames,
                                           [data |-> SliceTo(bridge.body_data, send_len),
                                            eos |-> FALSE, available |-> cap,
                                            remaining |-> Len(bridge.body_data)]),
                         !.released = Append(bridge.released, send_len),
                         !.body_data = rest,
                         !.pc = IF rest = <<>> THEN "data" ELSE "capacity"]
    /\ UNCHANGED notBridge

\* poll_capacity is Ready(Some(Err(..))): PollCapacity(..).await? returns it
CapacityFailed ==
    /\ bridge.pc = "capacity"
    /\ bridge.dst = "broken"
    /\ bridge' = [bridge EXCEPT !.pc = "err"]
    /\ UNCHANGED notBridge

\* body.rs:69-72: poll_capacity is Ready(None), the stream has ended;
\* PollCapacity::poll answers Pending, and no waker was registered
CapacityEnded ==
    /\ bridge.pc = "capacity"
    /\ bridge.dst = "closed"
    /\ bridge' = [bridge EXCEPT !.pc = "parked"]
    /\ UNCHANGED notBridge

\* the destination's peer resets the stream, or the destination breaks
DestinationFails(how) ==
    /\ bridge.pc \in {"data", "capacity"}
    /\ bridge.dst = "open"
    /\ bridge' = [bridge EXCEPT !.dst = how]
    /\ UNCHANGED notBridge

NextBridge ==
    \/ BridgeStart
    \/ BridgeData
    \/ \E cap \in Capacities : CapacityGranted(cap)
    \/ CapacityFailed
    \/ CapacityEnded
    \/ \E how \in {"closed", "broken"} : DestinationFails(how)

SpecBridge == InitBridge /\ [][NextBridge]_vars

\* The bridge's task runs whenever it can go on, and a destination that is
\* open grants capacity again and again.
SpecBridgeFair ==
    /\ InitBridge
    /\ [][NextBridge]_vars
    /\ WF_vars(BridgeStart)
    /\ WF_vars(BridgeData)
    /\ WF_vars(CapacityFailed)
    /\ WF_vars(CapacityEnded)
    /\ WF_vars(\E cap \in Capacities \ {0} : CapacityGranted(cap))

FramesData(frames) == Flatten([i \in 1..Len(frames) |-> frames[i].data])

\* C15: the payloads of the frames sent are, in order, a prefix of the source
\* body and the amounts released sum to their length; a bridge that is done
\* has sent the whole body, released its length, and sent end-of-stream
\* once, on an empty last frame (or on the headers of a body at its end).
C15_BridgeConservation ==
    LET body == Flatten(bridge.source)
        sentData == FramesData(bridge.frames)
        ends == {i \in 1..Len(bridge.frames) : bridge.frames[i].eos}
    IN  /\ IsPrefixOf(sentData, body)
        /\ Sum(bridge.released) = Len(sentData)
        /\ bridge.pc # "done" => (ends = {} /\ ~bridge.headersEos)
        /\ bridge.pc = "done" =>
               /\ sentData = body
               /\ Sum(bridge.released) = Len(body)
               /\ IF bridge.headersEos THEN bridge.frames = <<>>
                  ELSE /\ ends = {Len(bridge.frames)}
                       /\ bridge.frames[Len(bridge.frames)].data = <<>>

\* C15 as the specification states it: end-of-stream is sent on the empty
\* frame behind the last chunk, whatever the source body. A response whose
\* upstream stream is at its end when the headers arrive (respond.rs:44-49)
\* carries end-of-stream on its headers and has no data frame.
C15_EosOnFinalFrame ==
    bridge.pc = "done" =>
        /\ FramesData(bridge.frames) = Flatten(bridge.source)
        /\ Sum(bridge.released) = Len(Flatten(bridge.source))
        /\ {i \in 1..Len(bridge.frames) : bridge.frames[i].eos} = {Len(bridge.frames)}

\* C15 witness: a body of two chunks went out in more frames than chunks
C15_Witness ==
    /\ bridge.pc = "done"
    /\ Len(bridge.source) = 2
    /\ Len(Flatten(bridge.source)) > MaxBridgeChunk
    /\ Len(bridge.frames) > Len(bridge.source) + 1

\* C16: every frame that is not the last has the length min(available,
\* remaining), so none is longer than the capacity granted for it, and the
\* amount released behind it is its length.
C16_FlowControlRespected ==
    /\ Len(bridge.released) = Cardinality({i \in 1..Len(bridge.frames) : ~bridge.frames[i].eos})
    /\ \A i \in 1..Len(bridge.frames) :
           ~bridge.frames[i].eos =>
               /\ Len(bridge.frames[i].data) = Min(bridge.frames[i].available, bridge.frames[i].remaining)
               /\ Len(bridge.frames[i].data) <= bridge.frames[i].available
               /\ bridge.released[i] = Len(bridge.frames[i].data)

\* C16 witness: a frame was cut to a capacity smaller than what was left
C16_Witness ==
    \E i \in 1..Len(bridge.frames) :
        /\ ~bridge.frames[i].eos
        /\ bridge.frames[i].available > 0
        /\ bridge.frames[i].available < bridge.frames[i].remaining
        /\ bridge.released[i] = bridge.frames[i].available

\* end-of-stream has gone out, on the headers or on the last frame
EosSent ==
    \/ bridge.headersEos
    \/ bridge.frames # <<>> /\ bridge.frames[Len(bridge.frames)].eos

\* C17: a bridge whose source ends without an error is in the end done, with
\* every chunk sent and end-of-stream sent, unless its destination failed.
C17_BridgeDrains ==
    (bridge.pc = "start" /\ ~bridge.sourceFails)
        ~> \/ /\ bridge.pc = "done"
              /\ EosSent
              /\ FramesData(bridge.frames) = Flatten(bridge.source)
           \/ bridge.dst # "open"

\* C17 witness: done with the destination open, after a frame of no bytes and
\* a frame cut short
C17_Witness ==
    /\ bridge.pc = "done"
    /\ bridge.dst = "open"
    /\ \E i \in 1..Len(bridge.frames) : ~bridge.frames[i].eos /\ bridge.frames[i].available = 0
    /\ \E i \in 1..Len(bridge.frames) :
           bridge.frames[i].data # <<>> /\ Len(bridge.frames[i].data) < bridge.frames[i].remaining

\* C18: a bridge waiting for capacity on a destination that has failed, or
\* about to read a source that fails, ends with an error.
C18_FailedLegAborts ==
    /\ (bridge.pc = "capacity" /\ bridge.dst # "open") ~> (bridge.pc = "err")
    /\ (bridge.pc = "data" /\ bridge.taken = Len(bridge.source) /\ bridge.sourceFails)
           ~> (bridge.pc = "err")

(***************************************************************************)
(* The HTTP/1.1 responder: send_response_http1 (respond.rs) writes the     *)
(* upstream service's response, which arrived over HTTP/2, to an HTTP/1.1  *)
(* client: the header, then every chunk of the upstream body through an    *)
(* Http11Body (body.rs).  The upstream's response is the input: it has no  *)
(* content-length header, one with a decimal number, or one with a value   *)
(* that parse::<usize> refuses.                                            *)
(***************************************************************************)

\* "HTTP/1.1 200 OK"
StatusLine == <<72, 84, 84, 80, 47, 49, 46, 49, 32, 50, 48, 48, 32, 79, 75>>

\* HeaderMap::insert: a name the map has keeps its place, the value replaces
\* the values it had; a name the map has not is added at the end
HeaderInsert(headers, name, value) ==
    LET at == {i \in 1..Len(headers) : headers[i].name = name}
        first == IF at = {} THEN 0 ELSE CHOOSE i \in at : \A j \in at : i <= j
        Kept(hs) == SelectSeq(hs, LAMBDA h : h.name # name)
    IN  IF first = 0 THEN headers \o <<[name |-> name, value |-> value]>>
        ELSE Kept(SubSeq(headers, 1, first - 1)) \o <<[name |-> name, value |-> value]>>
                 \o Kept(SubSeq(headers, first + 1, Len(headers)))

\* http11.rs:122-139 write_http11_response
RECURSIVE WriteHeaders(_)
WriteHeaders(headers) ==
    IF headers = <<>> THEN <<>>
    ELSE Head(headers).name \o <<58, 32>> \o Head(headers).value \o Crlf \o WriteHeaders(Tail(headers))

WriteHttp11Response(headers) == StatusLine \o Crlf \o WriteHeaders(headers) \o Crlf

\* respond.rs:99 the buffer the header is serialised into, vec![0_u8; 4096]
HEADER_BUF_SIZE == 4096

\* respond.rs:81-85 content_len, -1 for None
ResponseContentLen(headers) ==
    LET h == HeaderGet(headers, CONTENT_LENGTH)
    IN  IF h = <<-1>> THEN -1 ELSE ParseUsize(h)

\* respond.rs:87 send_chunked
SendChunked(content_len, is_end) == content_len = -1 /\ ~is_end

\* body.rs:95 Pin::new(w).poll_write(cx, buf) on the ChunkedEncoder.  The
\* encoder of chunked.rs has send_chunk and send_finish and no poll_write;
\* the specification has a body chunk go through the encoder, and the write
\* is the encoder's own write of a chunk, send_chunk (chunked.rs:117-124).
ChunkedEncoderPollWrite(buf) == SendChunk(buf)

\* respond.rs:107-114 the wrapper the body is written through
Http11BodyNew(send_chunked, content_len) ==
    IF send_chunked THEN [kind |-> "chunked", written |-> 0, limit |-> 0]
    ELSE IF content_len = -1 THEN [kind |-> "nobody", written |-> 0, limit |-> 0]
    ELSE [kind |-> "limited", written |-> 0, limit |-> content_len]

\* respond.rs:119 AsyncWriteExt::write_all(&mut http11body, buf) over
\* Http11Body::poll_write (body.rs:87-97).  Nothing is written for an empty
\* buf; NoBody accepts 0 bytes, which write_all takes as an error; LimitWrite
\* (limit.rs:57-82) refuses to go beyond its limit; the chunked arm hands
\* the buf to the encoder's poll_write.
Http11BodyWriteAll(body, buf) ==
    IF buf = <<>> THEN [body |-> body, ok |-> TRUE, out |-> <<>>]
    ELSE IF body.kind = "nobody" THEN [body |-> body, ok |-> FALSE, out |-> <<>>]
    ELSE IF body.kind = "limited"
    THEN IF body.written + Len(buf) > body.limit
         THEN [body |-> body, ok |-> FALSE, out |-> <<>>]
         ELSE [body |-> [body EXCEPT !.written = body.written + Len(buf)],
               ok |-> TRUE, out |-> <<buf>>]
    ELSE [body |-> body, ok |-> TRUE, out |-> <<ChunkedEncoderPollWrite(buf)>>]

\* the chunk lengths of an upstream response body
RespChunkLens == {0, 1, MaxBridgeChunk}

\* values of a content-length header that are no usize: "abc", the empty
\* value, and 2^64
UnparsableLengths ==
    {<<97, 98, 99>>, <<>>,
     <<49, 56, 52, 52, 54, 55, 52, 52, 48, 55, 51, 55, 48, 57, 53, 53, 49, 54, 49, 54>>}

\* the content-length headers of the upstream responses whose body has the
\* chunk lengths lens: none, the length of the body or one off it (declared
\* -1, 0, 1), or a value that is no usize
ResponseHeaders(lens, declared, unparsable) ==
    IF unparsable # <<-1>> THEN <<[name |-> CONTENT_LENGTH, value |-> unparsable]>>
    ELSE IF declared = -1 THEN <<>>
    ELSE <<[name |-> CONTENT_LENGTH, value |-> Decimal(Sum(lens) + declared)]>>

InitRespond ==
    /\ PeekIdle
    /\ RouteIdle
    /\ DispatchIdle
    /\ HttpIdle
    /\ CodecIdle
    /\ BridgeIdle
    /\ LimitIdle
    /\ ServeIdle
    /\ LoopIdle
    /\ DecoderIdle
    /\ KeepIdle
    /\ ProbeIdle
    /\ \E lens \in SeqsUpTo(RespChunkLens, MaxChunks), declared \in -1..1,
          unparsable \in {<<-1>>} \cup UnparsableLengths,
          fails \in BOOLEAN, end \in BOOLEAN :
           /\ end => (lens = <<>> /\ ~fails /\ declared < 1)
           /\ declared = 1 => fails
           /\ unparsable # <<-1>> => declared = -1
           /\ resp = [NoResp EXCEPT
                         !.pc = "start",
                         !.headers = ResponseHeaders(lens, declared, unparsable),
                         !.isEnd = end,
                         !.source = Pieces(Payload(Sum(lens)), lens),
                         !.sourceFails = fails]

\* respond.rs:81-114: the mode is chosen, the header is written, the body
\* wrapper is made
RespondStart ==
    /\ resp.pc = "start"
    /\ LET content_len == ResponseContentLen(resp.headers)
           send_chunked == SendChunked(content_len, resp.isEnd)
           headers == IF send_chunked THEN HeaderInsert(resp.headers, TRANSFER_ENCODING, CHUNKED)
                      ELSE resp.headers
           text == WriteHttp11Response(headers)
       IN  resp' = [resp EXCEPT !.pc = "body",
                                !.send_chunked = send_chunked,
                                !.header = text,
                                !.headerPad = HEADER_BUF_SIZE - Len(text),
                                !.http11body = Http11BodyNew(send_chunked, content_len)]
    /\ UNCHANGED notResp

\* respond.rs:117-121: one turn of the loop, a chunk of the upstream body
\* written through the wrapper; Ok(()) when the body has ended
RespondData ==
    /\ resp.pc = "body"
    /\ resp' =
           IF resp.taken < Len(resp.source)
           THEN LET w == Http11BodyWriteAll(resp.http11body, resp.source[resp.taken + 1])
                IN  [resp EXCEPT !.taken = resp.taken + 1,
                                 !.http11body = w.body,
                                 !.socket = resp.socket \o w.out,
                                 !.pc = IF w.ok THEN "body" ELSE "err"]
           ELSE IF resp.sourceFails THEN [resp EXCEPT !.pc = "err"]
           ELSE [resp EXCEPT !.pc = "ok"]
    /\ UNCHANGED notResp

NextRespond ==
    \/ RespondStart
    \/ RespondData

SpecRespond == InitRespond /\ [][NextRespond]_vars

\* the lines of the header written, without the status line
HeaderLinesWritten == Tail(SplitOn(resp.header, Crlf))

\* "transfer-encoding: chunked"
ChunkedLine == TRANSFER_ENCODING \o <<58, 32>> \o CHUNKED

\* C19: once the header is written, the response is in chunked mode exactly
\* when the upstream response has no content-length header and its stream was
\* not at its end, and the header written has the line "transfer-encoding:
\* chunked" exactly when it is in chunked mode.
C19_ChunkedIffNoLengthAndNotEnd ==
    resp.pc \in {"body", "ok", "err"} =>
        /\ resp.send_chunked <=>
               /\ ~\E i \in 1..Len(resp.headers) : ToAsciiLowercase(resp.headers[i].name) = CONTENT_LENGTH
               /\ ~resp.isEnd
        /\ (resp.http11body.kind = "chunked") <=> resp.send_chunked
        /\ (\E i \in 1..Len(HeaderLinesWritten) : HeaderLinesWritten[i] = ChunkedLine)
               <=> resp.send_chunked

\* the chunks of the upstream body that hold bytes
NonEmptyChunks == SelectSeq(resp.source, LAMBDA c : c # <<>>)

\* C20: a responder that returns Ok after a chunked response has written
\* every upstream chunk as a chunk and, last and once, "0\r\n\r\n".
C20_ChunkedResponseFinished ==
    (resp.pc = "ok" /\ resp.send_chunked) =>
        resp.socket = [i \in 1..Len(NonEmptyChunks) |->
                           ChunkedEncoderPollWrite(NonEmptyChunks[i])]
                          \o <<SendFinish>>

(***************************************************************************)
(* LimitWrite (limit.rs), the writer send_response_http1 puts around the   *)
(* client's socket for a response with a content-length: poll_write calls  *)
(* with any buf, on a source that accepts all of the buf, a part of it, or *)
(* fails.                                                                  *)
(***************************************************************************)

LimitExceededNever(total, limit) == FALSE

\* limit.rs:63-64 total > self.limit
LimitExceeded(total, limit) == total > limit

\* limit.rs:57-82 LimitWrite::poll_write(buf) on w; wr: what the source's
\* poll_write answers, the number of bytes it accepted, or -1 for an error.
\* result "ok": Ok(wr); "limit": the Err of limit.rs:65-71; "io": the
\* source's Err.  out: the bytes that went to the source.
LimitWritePollWrite(w, buf, wr) ==
    IF LimitExceeded(w.written + Len(buf), w.limit)
    THEN [w |-> w, result |-> "limit", out |-> <<>>]
    ELSE IF wr = -1 THEN [w |-> w, result |-> "io", out |-> <<>>]
    ELSE [w |-> [w EXCEPT !.written = w.written + wr], result |-> "ok",
          out |-> SubSeq(buf, 1, wr)]

\* LimitWrite::new(source, limit), limit.rs:48-55, as respond.rs:112 makes it
InitLimitWrite ==
    /\ PeekIdle
    /\ RouteIdle
    /\ DispatchIdle
    /\ HttpIdle
    /\ CodecIdle
    /\ BridgeIdle
    /\ RespIdle
    /\ ServeIdle
    /\ LoopIdle
    /\ DecoderIdle
    /\ KeepIdle
    /\ ProbeIdle
    /\ \E size \in 0..MaxLimit :
           lw = [NoLimit EXCEPT !.pc = "open", !.limit = size]

\* one poll_write with a buf of len bytes, the source answering wr
LimitPollWrite(len, wr) ==
    /\ lw.pc = "open"
    /\ lw.calls < MaxDataCalls
    /\ wr <= len
    /\ \E r \in {LimitWritePollWrite([written |-> lw.written, limit |-> lw.limit],
                                     Payload(len), wr)} :
           lw' = [lw EXCEPT !.written = r.w.written,
                            !.socket = lw.socket \o r.out,
                            !.calls = lw.calls + 1,
                            !.last = r.result,
                            !.before = Len(lw.socket)]
    /\ UNCHANGED notLimit

NextLimitWrite ==
    \E len \in 0..(MaxLimit + 1), wr \in -1..(MaxLimit + 1) : LimitPollWrite(len, wr)

SpecLimitWrite == InitLimitWrite /\ [][NextLimitWrite]_vars

\* C21: the bytes the socket has accepted through a LimitWrite of limit n are
\* never more than n, the written counter is their number, and a write
\* refused by the limit has put none of its bytes on the socket.
C21_LimitNeverExceeded ==
    lw.pc = "open" =>
        /\ Len(lw.socket) <= lw.limit
        /\ lw.written = Len(lw.socket)
        /\ lw.last = "limit" => Len(lw.socket) = lw.before

\* C21 witness: a write was accepted in part, and a later one refused by the
\* limit
C21_Witness ==
    /\ lw.last = "limit"
    /\ lw.written > 0
    /\ lw.written < lw.limit

(***************************************************************************)
(* The accept loop: accept_incoming (lib.rs) awaits the provider's next    *)
(* connection and then handle_incoming on it, which for a client           *)
(* connection is handle_client with its loop over the connection's         *)
(* requests (HTTP/1.1) or streams (HTTP/2).  It is one task; srv.pc is the *)
(* await it is suspended at.  What the peers do is the input: a connection *)
(* is silent, too short, a service's 'lolb' + key, or a client's with its  *)
(* requests; for each request the router finds an upstream or none, and    *)
(* the upstream answers, fails, or stays silent.                           *)
(***************************************************************************)

PATH_NODE_REGISTER == "/__lolb_node_register"

PATH_KEEP_ALIVE == "/__lolb_keep_alive"

\* a path of a service
PathService == "/x"

\* a request: its path, and what becomes of it upstream: "none": route()
\* finds no upstream; "gone": the upstream's connection is not ready for a
\* request (serv_conn.rs:19); "send_error": h2 refuses the request on a
\* ready connection (serv_conn.rs:26); "body_error": the request's body
\* fails while it is forwarded; "stall": the upstream never answers; "ok":
\* it answers
Request(path, upstream) == [path |-> path, upstream |-> upstream]

\* the requests of the client connections tried
RequestSeqs ==
    {<<>>,
     <<Request(PathService, "ok"), Request(PathService, "ok")>>,
     <<Request(PathService, "none"), Request(PathService, "ok")>>,
     <<Request(PathService, "gone"), Request(PathService, "ok")>>,
     <<Request(PathService, "send_error"), Request(PathService, "ok")>>,
     <<Request(PathService, "body_error"), Request(PathService, "ok")>>,
     <<Request(PathService, "stall"), Request(PathService, "ok")>>,
     <<Request(PATH_NODE_REGISTER, "ok"), Request(PathService, "ok")>>,
     <<Request(PathService, "ok"), Request(PATH_NODE_REGISTER, "ok")>>,
     <<Request(PATH_KEEP_ALIVE, "ok")>>}

\* the key of the service connections tried
ServiceKey == 1

\* what the provider's accept() yields: an error, or a connection.  joined:
\* the requests of an HTTP/1.1 client arrive in one segment, not each in a
\* segment of its own
Provided ==
    {[kind |-> k, requests |-> <<>>, key |-> 0, joined |-> FALSE] :
         k \in {"error", "silent", "short"}}
        \cup {[kind |-> "lolb", requests |-> <<>>, key |-> ServiceKey, joined |-> FALSE]}
        \cup {[kind |-> "h2", requests |-> rs, key |-> 0, joined |-> FALSE] : rs \in RequestSeqs}
        \cup UNION {{[kind |-> "http11", requests |-> rs, key |-> 0, joined |-> j] :
                         j \in IF Len(rs) > 1 THEN BOOLEAN ELSE {FALSE}} : rs \in RequestSeqs}

\* the bytes of a path
PathWire(path) ==
    CASE path = PathService -> <<47, 120>>
      [] path = PATH_NODE_REGISTER -> <<47, 95, 95, 108, 111, 108, 98, 95, 110, 111, 100, 101, 95, 114, 101, 103, 105, 115, 116, 101, 114>>
      [] path = PATH_KEEP_ALIVE -> <<47, 95, 95, 108, 111, 108, 98, 95, 107, 101, 101, 112, 95, 97, 108, 105, 118, 101>>

\* the head of a client's request for path: "GET <path> HTTP/1.1",
\* "Host: x.example" and the empty line; it has no body
ServeHead(path) ==
    <<71, 69, 84, 32>> \o PathWire(path) \o <<32, 72, 84, 84, 80, 47, 49, 46, 49>> \o Crlf
        \o HostLine \o Crlf \o Crlf

\* what an HTTP/1.1 client sends before it shuts its side down: its
\* requests, or, when it has none, the start of one, as long as the HTTP/2
\* preface
ServeWire(c) ==
    LET heads == [i \in 1..Len(c.requests) |-> ServeHead(c.requests[i].path)]
    IN  IF heads = <<>> THEN <<Take(ServeHead(PathService), H2_PREFACE_LEN)>>
        ELSE IF c.joined THEN <<Flatten(heads)>>
        ELSE heads

\* an entry of the log
Event(what, s, path, note) ==
    [what |-> what, conn |-> s.accepted, req |-> s.done + 1, path |-> path, note |-> note]

\* lib.rs:72-77: whatever handle_incoming returns, the loop goes on
AfterIncoming(result) == "accept"

\* handle_incoming returns result; the connection is dropped
EndIncoming(s, result, cause) ==
    [s EXCEPT !.pc = AfterIncoming(result),
              !.cur = NoServe.cur,
              !.done = 0,
              !.socket = NoServe.socket,
              !.body = NoServe.body,
              !.log = Append(s.log, Event("closed", s, "", cause))]

\* a panic unwinds accept_incoming's task: the connection is dropped and
\* the task is over
Panicked(s, cause) ==
    [s EXCEPT !.pc = "panicked",
              !.cur = NoServe.cur,
              !.done = 0,
              !.socket = NoServe.socket,
              !.body = NoServe.body,
              !.log = Append(s.log, Event("panicked", s, "", cause))]

RequestStepsNoRespond == <<"upstream">>

\* lib.rs:230-232 and 238-240: the awaits of one turn of handle_client's
\* loop behind the request, in order
RequestSteps == <<"upstream", "respond">>

\* lib.rs:213 and 236: the await at the head of handle_client's loop
LoopHead(kind) == IF kind = "h2" THEN "h2accept" ELSE "parse"

\* the await that follows the await `at` in the turn for a request
StepAfter(s, at) ==
    LET i == CHOOSE j \in 1..Len(RequestSteps) : RequestSteps[j] = at
    IN  IF i < Len(RequestSteps) THEN [s EXCEPT !.pc = RequestSteps[i + 1]]
        ELSE [s EXCEPT !.pc = LoopHead(s.cur.kind), !.done = s.done + 1]

\* lib.rs:250-259 is_service_auth
IsServiceAuth(req) == req.path = PATH_NODE_REGISTER

\* lib.rs:262-271 handle_service_auth: Ok(()), nothing else
HandleServiceAuth(s) == [s EXCEPT !.log = Append(s.log, Event("service_auth", s, PATH_NODE_REGISTER, "ok"))]

InitServe ==
    /\ PeekIdle
    /\ RouteIdle
    /\ DispatchIdle
    /\ HttpIdle
    /\ CodecIdle
    /\ BridgeIdle
    /\ RespIdle
    /\ LimitIdle
    /\ LoopIdle
    /\ DecoderIdle
    /\ KeepIdle
    /\ ProbeIdle
    /\ \E first \in Provided, more \in SeqsUpTo(Provided, MaxWaiting), stored \in SUBSET {ServiceKey} :
           srv = [NoServe EXCEPT !.pc = "accept", !.provider = <<first>> \o more,
                                 !.store = stored]

\* lib.rs:69 provider.accept().await?
Accept ==
    /\ srv.pc = "accept"
    /\ srv.provider # <<>>
    /\ srv' = IF Head(srv.provider).kind = "error"
              THEN [srv EXCEPT !.pc = "stopped", !.provider = Tail(srv.provider),
                               !.log = Append(srv.log, Event("accept_failed", srv, "", ""))]
              ELSE LET s == [srv EXCEPT !.accepted = srv.accepted + 1]
                   IN  [s EXCEPT !.pc = "peek", !.provider = Tail(srv.provider),
                                 !.cur = Head(srv.provider),
                                 !.socket = IF Head(srv.provider).kind = "http11"
                                            THEN PeekableNew(ServeWire(Head(srv.provider)))
                                            ELSE NoServe.socket,
                                 !.log = Append(srv.log, Event("accepted", s, "", ""))]
    /\ UNCHANGED notServe

\* a peek of n bytes on the connection of an HTTP/1.1 client, whose bytes
\* the model has; with fewer than n the connection is over, else the task
\* goes on to pc
ClientPeek(s, n, pc) ==
    LET pk == Peek(s.socket, n, Never)
    IN  IF Len(pk.out) < n THEN EndIncoming(s, "err", "short")
        ELSE [s EXCEPT !.pc = pc, !.socket = pk.p]

\* lib.rs:93-134: the peek of PREAUTH_LEN bytes (lib.rs:94) has an answer;
\* for a service's connection the mutex is locked and load_preauthed is
\* awaited (lib.rs:110-114), for a client's handle_client starts and awaits
\* its own peek (lib.rs:191)
PeekDone ==
    /\ srv.pc = "peek"
    /\ srv.cur.kind # "silent"
    /\ srv' = CASE srv.cur.kind = "short" -> EndIncoming(srv, "err", "short")
                [] srv.cur.kind = "lolb" -> [srv EXCEPT !.pc = "load", !.lock = TRUE]
                [] srv.cur.kind = "http11" -> ClientPeek(srv, PREAUTH_LEN, "peek2")
                [] OTHER -> [srv EXCEPT !.pc = "peek2"]
    /\ UNCHANGED notServe

\* lib.rs:186-211: handle_client's peek of H2_PREFACE.len() bytes has an
\* answer; an HTTP/2 client's connection goes to the server handshake
\* (lib.rs:210), an HTTP/1.1 client's to the first parse_http11
VersionPeekDone ==
    /\ srv.pc = "peek2"
    /\ srv' = IF srv.cur.kind = "http11" THEN ClientPeek(srv, H2_PREFACE_LEN, "parse")
              ELSE [srv EXCEPT !.pc = "h2handshake"]
    /\ UNCHANGED notServe

\* lib.rs:210 h2::server::handshake(conn.socket()).await? has its answer
ServerHandshake(ok) ==
    /\ srv.pc = "h2handshake"
    /\ srv' = IF ok THEN [srv EXCEPT !.pc = LoopHead(srv.cur.kind)]
              ELSE EndIncoming(srv, "err", "h2_server")
    /\ UNCHANGED notServe

\* lib.rs:113-128: load_preauthed has its answer and the guard is dropped
LoadDone ==
    /\ srv.pc = "load"
    /\ srv' = IF srv.cur.key \in srv.store
              THEN [srv EXCEPT !.pc = "handshake", !.lock = FALSE]
              ELSE EndIncoming([srv EXCEPT !.lock = FALSE], "err", "no_preauth")
    /\ UNCHANGED notServe

\* lib.rs:149-172 add_preauthed_service: the h2 client handshake has its
\* answer; the service is added under the mutex
ServiceHandshake(ok) ==
    /\ srv.pc = "handshake"
    /\ srv' = IF ok
              THEN EndIncoming([srv EXCEPT !.log = Append(srv.log, Event("registered", srv, "", ""))],
                               "ok", "service")
              ELSE EndIncoming(srv, "err", "h2")
    /\ UNCHANGED notServe

\* lib.rs:213-230 and 236-238: h2.accept() or parse_http11 has its answer,
\* None at the end of the connection or the next request, which is a
\* service's auth (checked on the first stream of an HTTP/2 connection
\* only) or is routed under the mutex (request_to_service, lib.rs:282-290)
\* On an HTTP/1.1 connection the answer is that of parse_http11 on the
\* connection's socket (http11.rs:14-78).
NextRequest ==
    /\ srv.pc \in {"h2accept", "parse"}
    /\ \E r \in {IF srv.cur.kind = "http11" THEN ParseHttp11(srv.socket)
                  ELSE [result |-> IF srv.done = Len(srv.cur.requests) THEN "eof" ELSE "request",
                        p |-> srv.socket, req |-> NoRequest, body |-> NoBody]} :
        srv' =
           IF r.result = "eof" THEN EndIncoming(srv, "ok", "end")
           ELSE IF r.result = "err" THEN EndIncoming(srv, "err", "http11parse")
           ELSE LET req == srv.cur.requests[srv.done + 1]
                    got == [srv EXCEPT !.socket = r.p, !.body = r.body]
                    taken == [got EXCEPT !.log = Append(srv.log, Event("taken", srv, req.path, ""))]
                    routed == [taken EXCEPT !.log = Append(taken.log,
                                                Event("routed", srv, req.path, req.upstream))]
                IN  IF srv.cur.kind = "h2" /\ srv.done = 0 /\ IsServiceAuth(req)
                    THEN EndIncoming(HandleServiceAuth(taken), "ok", "service_auth")
                    ELSE IF req.upstream = "none" THEN EndIncoming(routed, "err", "none")
                    ELSE [routed EXCEPT !.pc = RequestSteps[1]]
    /\ UNCHANGED notServe

\* serv_conn.rs:11-57 send_request has its answer (lib.rs:287); it has read
\* the body of an HTTP/1.1 client's request to its end, which for a request
\* without a body is one data() that answers None (serv_conn.rs:31-53).  The
\* failures it returns end the connection; h2's refusal of the request is
\* unwrapped (serv_conn.rs:26) and panics.
UpstreamAnswers ==
    /\ srv.pc = "upstream"
    /\ LET req == srv.cur.requests[srv.done + 1]
           Read(b) == [srv EXCEPT !.socket = b.p, !.body = b.body]
       IN  /\ req.upstream # "stall"
           /\ srv' = IF req.upstream = "send_error" THEN Panicked(srv, "send_request")
                     ELSE IF req.upstream # "ok" THEN EndIncoming(srv, "err", req.upstream)
                     ELSE IF srv.cur.kind = "http11"
                     THEN StepAfter(Read(RecvBodyData(srv.body, srv.socket)), "upstream")
                     ELSE StepAfter(srv, "upstream")
    /\ UNCHANGED notServe

\* lib.rs:232 and 240: send_response has written the response
Respond ==
    /\ srv.pc = "respond"
    /\ LET req == srv.cur.requests[srv.done + 1]
       IN  srv' = StepAfter([srv EXCEPT !.log = Append(srv.log,
                                             Event("responded", srv, req.path, "upstream"))],
                            "respond")
    /\ UNCHANGED notServe

NextServe ==
    \/ Accept
    \/ PeekDone
    \/ VersionPeekDone
    \/ \E ok \in BOOLEAN : ServerHandshake(ok)
    \/ LoadDone
    \/ \E ok \in BOOLEAN : ServiceHandshake(ok)
    \/ NextRequest
    \/ UpstreamAnswers
    \/ Respond

SpecServe == InitServe /\ [][NextServe]_vars

\* ENABLED <<PeekDone>>_vars, as a predicate of the state: the step always
\* leaves the peek
PeekAnswered == srv.pc = "peek" /\ srv.cur.kind # "silent"

\* ENABLED <<VersionPeekDone>>_vars, as a predicate of the state: the step
\* always leaves the peek
VersionPeekAnswered == srv.pc = "peek2"

\* ENABLED <<NextRequest>>_vars, as a predicate of the state: the step
\* always adds to the log
RequestReady == srv.pc \in {"h2accept", "parse"}

\* The executor polls the task whenever the future it awaits is ready; the
\* peers' silence is the input, not a step.  Weak fairness of each step, that
\* of PeekDone, VersionPeekDone and NextRequest written out with
\* PeekAnswered, VersionPeekAnswered and RequestReady.
SpecServeFair ==
    /\ InitServe
    /\ [][NextServe]_vars
    /\ WF_vars(Accept)
    /\ ([]<>~PeekAnswered \/ []<><<PeekDone>>_vars)
    /\ ([]<>~VersionPeekAnswered \/ []<><<VersionPeekDone>>_vars)
    /\ WF_vars(\E ok \in BOOLEAN : ServerHandshake(ok))
    /\ WF_vars(LoadDone)
    /\ WF_vars(\E ok \in BOOLEAN : ServiceHandshake(ok))
    /\ ([]<>~RequestReady \/ []<><<NextRequest>>_vars)
    /\ WF_vars(UpstreamAnswers)
    /\ WF_vars(Respond)

\* the failures of one request: no route or no live upstream, the upstream
\* gone, the body failing
TransientFailures == {"none", "gone", "body_error"}

\* C22: a request's transient failure does not end its connection: no
\* connection is closed by handle_client for such a failure.
C22_TransientFailureKeepsConnection ==
    \A i \in 1..Len(srv.log) :
        srv.log[i].what = "closed" => srv.log[i].note \notin TransientFailures

\* C23: a request for which the router found no upstream has got a response
\* with the status 502 by the time its connection goes on or is closed.
C23_RoutingFailureGets502 ==
    \A i \in 1..Len(srv.log) :
        (/\ srv.log[i].what = "routed"
         /\ srv.log[i].note = "none"
         /\ \E j \in (i + 1)..Len(srv.log) :
                srv.log[j].conn = srv.log[i].conn /\ srv.log[j].what \in {"closed", "taken"})
        => \E j \in (i + 1)..Len(srv.log) :
               /\ srv.log[j].conn = srv.log[i].conn
               /\ srv.log[j].req = srv.log[i].req
               /\ srv.log[j].what = "responded"
               /\ srv.log[j].note = "502"

\* C24: the accept loop is over exactly when the provider's accept has
\* failed; when handle_incoming is over for a connection, whatever its
\* result, the loop is back at the provider's accept, and what it does next
\* is accept.
C24_OnlyAcceptFailureStopsLoop ==
    /\ srv.pc \in {"stopped", "panicked"} <=>
           (srv.log # <<>> /\ srv.log[Len(srv.log)].what = "accept_failed")
    /\ \A i \in 1..Len(srv.log) :
           srv.log[i].what = "closed" =>
               IF i = Len(srv.log) THEN srv.pc = "accept"
               ELSE srv.log[i + 1].what \in {"accepted", "accept_failed"}

\* C25: a connection the provider has ready is accepted in the end, whatever
\* the connections accepted before it are waiting for, unless the loop has
\* stopped.
C25_StalledConnectionDoesNotBlockAccept ==
    (srv.pc # "idle" /\ srv.provider # <<>>)
        ~> (srv.provider = <<>> \/ srv.pc \in {"stopped", "panicked"})

\* C27: while a stream of an HTTP/2 connection waits for an upstream that
\* stays silent, the next stream of the connection is accepted in the end.
C27_StalledStreamDoesNotBlockStreams ==
    \A n \in 0..1 :
        (/\ srv.cur.kind = "h2"
         /\ srv.pc = "upstream"
         /\ srv.done = n
         /\ Len(srv.cur.requests) > n + 1
         /\ srv.cur.requests[n + 1].upstream = "stall")
        ~> \E i \in 1..Len(srv.log) :
               /\ srv.log[i].what = "taken"
               /\ srv.log[i].conn = srv.accepted
               /\ srv.log[i].req = n + 2

\* the entries of the log for the connection in hand
CurrentEvents(what) ==
    {i \in 1..Len(srv.log) : srv.log[i].conn = srv.accepted /\ srv.log[i].what = what}

\* C26: on an HTTP/1.1 connection the parse of a request starts when the
\* responses to all the requests before it have been written, and the
\* responses are written in the order of the requests, one to a request.
C26_Http11RequestsSerialized ==
    srv.cur.kind = "http11" =>
        /\ srv.pc = "parse" =>
               {srv.log[i].req : i \in CurrentEvents("responded")} = 1..srv.done
        /\ \A i \in CurrentEvents("taken") :
               \A k \in 1..(srv.log[i].req - 1) :
                   \E j \in CurrentEvents("responded") : j < i /\ srv.log[j].req = k
        /\ \A i, j \in CurrentEvents("responded") :
               i < j => srv.log[i].req < srv.log[j].req

\* C26 witness: the second request of an HTTP/1.1 connection has been taken
\* and answered
C26_Witness ==
    /\ srv.cur.kind = "http11"
    /\ \E i \in CurrentEvents("responded") : srv.log[i].req = 2

\* the awaits at which the task is suspended: provider.accept() (lib.rs:69)
\* and those of the connection in hand
SuspensionPoints ==
    {"accept", "peek", "peek2", "h2handshake", "load", "handshake", "h2accept", "parse",
     "upstream", "respond"}

\* C28: the mutex of the load balancer is not held while the connection's
\* task is suspended at an await.
C28_LockNotHeldAcrossAwait == srv.pc \in SuspensionPoints => ~srv.lock

\* lib.rs:39-40: the paths the balancer keeps for itself
ReservedPaths == {PATH_NODE_REGISTER, PATH_KEEP_ALIVE}

\* C29: no request for a reserved path is passed to the router or forwarded
\* upstream, on an HTTP/1.1 connection or on any stream of an HTTP/2
\* connection.
C29_ReservedPathsNeverRouted ==
    \A i \in 1..Len(srv.log) :
        srv.log[i].what \in {"routed", "responded"} => srv.log[i].path \notin ReservedPaths

\* C30: when a service has authenticated on the register path, a record is
\* stored under a key and a response carrying that key has been sent on the
\* stream.
C30_ServiceAuthIssuesKey ==
    \A i \in 1..Len(srv.log) :
        srv.log[i].what = "service_auth" =>
            /\ srv.store # {}
            /\ \E j \in (i + 1)..Len(srv.log) :
                   /\ srv.log[j].conn = srv.log[i].conn
                   /\ srv.log[j].what = "responded"
                   /\ srv.log[j].note = "key"

(***************************************************************************)
(* The registry under add_preauthed (SpecRoute).                           *)
(***************************************************************************)
\* the connections registered for (domain, host, prefix) in ds, <<>> when the
\* registry has no such route
RouteOf(ds, domain, host, prefix) ==
    LET d == FirstPosition(ds, LAMBDA i : ds[i].domain = domain)
        h == IF d = 0 THEN 0 ELSE FirstPosition(ds[d].hosts, LAMBDA i : ds[d].hosts[i].host = host)
        r == IF h = 0 THEN 0
             ELSE FirstPosition(ds[d].hosts[h].routes,
                                LAMBDA i : ds[d].hosts[h].routes[i].prefix = prefix)
    IN  IF r = 0 THEN <<>> ELSE ds[d].hosts[h].routes[r].connections

\* the registry has a route for (domain, host, prefix)
HasRoute(ds, domain, host, prefix) ==
    \E d \in 1..Len(ds) : \E h \in 1..Len(ds[d].hosts) : \E r \in 1..Len(ds[d].hosts[h].routes) :
        /\ ds[d].domain = domain
        /\ ds[d].hosts[h].host = host
        /\ ds[d].hosts[h].routes[r].prefix = prefix

\* no domain holds two hosts of one name, no host two routes of one prefix
NoDuplicates(ds) ==
    \A d \in 1..Len(ds) :
        /\ \A i, j \in 1..Len(ds[d].hosts) :
               ds[d].hosts[i].host = ds[d].hosts[j].host => i = j
        /\ \A h \in 1..Len(ds[d].hosts) :
               \A i, j \in 1..Len(ds[d].hosts[h].routes) :
                   ds[d].hosts[h].routes[i].prefix = ds[d].hosts[h].routes[j].prefix => i = j

\* the number of routes of the registry
RouteCount(ds) ==
    LET perHost(d) == [h \in 1..Len(ds[d].hosts) |-> Len(ds[d].hosts[h].routes)]
    IN  Sum(Flatten([d \in 1..Len(ds) |-> perHost(d)]))

\* a step of add_preauthed for p: the connection c is appended to the route
\* of (p.domain, p.host, p.prefix), every other route keeps its connections,
\* and at most the one route is new
AddedTo(p, c) ==
    /\ \A q \in Preauths :
           RouteOf(domains', q.domain, q.host, q.prefix) =
               IF q = p THEN Append(RouteOf(domains, q.domain, q.host, q.prefix), c)
               ELSE RouteOf(domains, q.domain, q.host, q.prefix)
    /\ HasRoute(domains', p.domain, p.host, p.prefix)
    /\ [d \in 1..Len(domains') |-> domains'[d].domain]
           = [d \in 1..Len(domains) |-> domains[d].domain]
    /\ RouteCount(domains') =
           RouteCount(domains) + (IF HasRoute(domains, p.domain, p.host, p.prefix) THEN 0 ELSE 1)

\* C31: the registry never holds a host twice in a domain or a prefix twice
\* in a host, and a call of add_preauthed appends its connection to the
\* route of exactly its (domain, host, prefix), leaving the others as they
\* were.
C31_AddPreauthedFindsOrCreates ==
    /\ [](NoDuplicates(domains))
    /\ [][nextConn' # nextConn => \E p \in Preauths : AddedTo(p, nextConn)]_vars

\* C31 witness: a route found by a second add_preauthed holds two
\* connections
C31_Witness ==
    \E p \in Preauths : Len(RouteOf(domains, p.domain, p.host, p.prefix)) = 2

\* the latest lookup chose a route and is over
LookupOver == lookup.r # 0 /\ lookup.pc = "idle"

\* the connections the chosen route held when the lookup started
HeldAtStart == {lookup.connsAtStart[i] : i \in 1..Len(lookup.connsAtStart)}

\* C32: when a lookup that chose a route is over, the route holds none of the
\* connections that were dead when it started, in the order they had; the
\* upstream returned is one the route held, and every connection registered
\* before it is dead; no upstream is returned only when every connection the
\* route held is dead.
C32_PruneAndFirstLive ==
    LookupOver =>
        LET conns == RouteConns(domains, lookup)
            kept == SelectSeq(conns, LAMBDA c : c \in HeldAtStart)
        IN  /\ \A i \in 1..Len(kept) : kept[i] \in lookup.aliveAtStart
            /\ kept = SelectSeq(lookup.connsAtStart, LAMBDA c : c \in {kept[i] : i \in 1..Len(kept)})
            /\ lookup.result # 0 =>
                   \E i \in 1..Len(lookup.connsAtStart) :
                       /\ lookup.connsAtStart[i] = lookup.result
                       /\ lookup.result \in lookup.aliveAtStart
                       /\ \A j \in 1..(i - 1) : lookup.connsAtStart[j] \notin alive
            /\ lookup.result = 0 => \A c \in HeldAtStart : c \notin alive

\* C32 witness: the route held a dead connection before a live one; the
\* lookup pruned the dead one and returned the live one
C32_Witness ==
    /\ LookupOver
    /\ Len(lookup.connsAtStart) = 2
    /\ lookup.connsAtStart[1] \notin lookup.aliveAtStart
    /\ RouteConns(domains, lookup) = <<lookup.connsAtStart[2]>>
    /\ lookup.result = lookup.connsAtStart[2]

(***************************************************************************)
(* SpecIndexLoop: the round-robin index of dns.rs (IndexLoop<usize>), made *)
(* with every small max and current and called again and again.            *)
(***************************************************************************)
\* dns.rs:876-881 IndexLoop::new(max, current)
IndexLoopNew(max, current) ==
    [NoLoop EXCEPT !.pc = "made", !.current = current, !.max = max, !.start = current]

NextIndexNoWrap(current, max) == current + 1

\* dns.rs:887: (self.current + 1) % self.max; current is at most MaxIndex
\* here, far from usize::MAX, where the addition would overflow
NextIndex(current, max) == (current + 1) % max

\* dns.rs:885-889 IndexLoop::next: returns current and steps it
IndexLoopNext(l) ==
    [l EXCEPT !.current = NextIndex(l.current, l.max),
              !.returned = Append(l.returned, l.current)]

InitIndexLoop ==
    /\ PeekIdle
    /\ RouteIdle
    /\ DispatchIdle
    /\ HttpIdle
    /\ CodecIdle
    /\ BridgeIdle
    /\ RespIdle
    /\ LimitIdle
    /\ ServeIdle
    /\ DecoderIdle
    /\ KeepIdle
    /\ ProbeIdle
    /\ \E max \in 1..MaxIndex, current \in 0..MaxIndex :
           indexLoop = IndexLoopNew(max, current)

\* a call of next()
LoopNext ==
    /\ indexLoop.pc = "made"
    /\ Len(indexLoop.returned) < MaxNext
    /\ indexLoop' = IndexLoopNext(indexLoop)
    /\ UNCHANGED notLoop

NextIndexLoop == LoopNext

SpecIndexLoop == InitIndexLoop /\ [][NextIndexLoop]_vars

\* C33: for an IndexLoop made with 0 <= current < max, the k-th call of
\* next() (k = 0, 1, ...) returns (current + k) mod max, an index below max.
C33_IndexLoopRoundRobin ==
    indexLoop.start < indexLoop.max =>
        \A k \in 0..(Len(indexLoop.returned) - 1) :
            /\ indexLoop.returned[k + 1] = (indexLoop.start + k) % indexLoop.max
            /\ indexLoop.returned[k + 1] \in 0..(indexLoop.max - 1)

\* C33 witness: a loop over three indices started at 1 has gone round: 1, 2,
\* 0, 1
C33_Witness ==
    /\ indexLoop.max = 3
    /\ indexLoop.start = 1
    /\ Len(indexLoop.returned) >= 4
    /\ SubSeq(indexLoop.returned, 1, 4) = <<1, 2, 0, 1>>

(***************************************************************************)
(* SpecDecoder: a ChunkedDecoder over chunked bodies as a peer writes them *)
(* (RFC 7230 4.1): one chunk with its size line, the last chunk            *)
(* "0\r\n\r\n", and what the peer sends next.  data() is called until it   *)
(* fails.  A chunk larger than MAX_READ_SIZE (1 MiB) does not fit a model; *)
(* data_res handles the constant as a value, so the body of five bytes is  *)
(* also read with the read size MaxReadScaled in its place.                *)
(***************************************************************************)
\* the size lines tried, without their CRLF: "2", "5", "1a" (26), "a0" (160),
\* "2;x" (2 with a chunk extension), "zz" (no size)
SizeLine2 == <<50>>

SizeLine5 == <<53>>

SizeLine1a == <<49, 97>>

SizeLineA0 == <<97, 48>>

SizeLine2Ext == <<50, 59, 120>>

SizeLineZz == <<122, 122>>

\* the last chunk and the end of the body: "0\r\n\r\n"
LastChunk == <<48>> \o Crlf \o Crlf

\* a body of one chunk on the wire
WireBody(line, payload) == line \o Crlf \o payload \o Crlf \o LastChunk

\* what is tried: the form of the size line, the line, the size it states
DecoderInputs ==
    {[form |-> "hex", line |-> SizeLine2, size |-> 2],
     [form |-> "hex", line |-> SizeLine5, size |-> 5],
     [form |-> "hex", line |-> SizeLine1a, size |-> 26],
     [form |-> "hex", line |-> SizeLineA0, size |-> 160],
     [form |-> "ext", line |-> SizeLine2Ext, size |-> 2],
     [form |-> "nonhex", line |-> SizeLineZz, size |-> 2],
     [form |-> "empty", line |-> <<>>, size |-> 0]}

\* the start of a request behind the body: "GET"
NextRequestStart == <<71, 69, 84>>

\* the bytes of the stream not yet read
Unread(p) == BufferedBytes(p) \o Flatten(p.wrapped)

InitDecoder ==
    /\ PeekIdle
    /\ RouteIdle
    /\ DispatchIdle
    /\ HttpIdle
    /\ CodecIdle
    /\ BridgeIdle
    /\ RespIdle
    /\ LimitIdle
    /\ ServeIdle
    /\ LoopIdle
    /\ KeepIdle
    /\ ProbeIdle
    /\ \E in \in DecoderInputs, rest \in {<<>>, NextRequestStart},
          max_read \in {MAX_READ_SIZE, MaxReadScaled} :
       \E bytewise \in {FALSE, in.size <= MaxBytewise} :
       \E wire \in {(IF in.form = "empty" THEN LastChunk
                     ELSE WireBody(in.line, Payload(in.size))) \o rest} :
           decoding = [NoDecoder EXCEPT
                           !.pc = "decoding", !.form = in.form,
                           !.payload = Payload(in.size), !.rest = rest,
                           !.max_read = max_read,
                           !.socket = PeekableNew(IF bytewise
                                                  THEN [i \in 1..Len(wire) |-> <<wire[i]>>]
                                                  ELSE <<wire>>),
                           !.amount_left = ChunkedDecoderNew.amount_left]

\* a call of ChunkedDecoder::data; the caller stops at an error
DecoderCall ==
    /\ decoding.pc = "decoding"
    /\ decoding.last # "err"
    /\ decoding.calls < MaxDecodes
    /\ \E r \in {DecoderDataMax([amount_left |-> decoding.amount_left], decoding.socket,
                                decoding.max_read)} :
           decoding' = [decoding EXCEPT
                            !.socket = r.p, !.amount_left = r.dec.amount_left,
                            !.outs = IF r.kind = "some" THEN Append(decoding.outs, r.out)
                                     ELSE decoding.outs,
                            !.calls = decoding.calls + 1,
                            !.last = r.kind,
                            !.ended = decoding.ended \/ r.kind = "none",
                            !.leftAtEnd = IF ~decoding.ended /\ r.kind = "none"
                                          THEN Unread(r.p) ELSE decoding.leftAtEnd]
    /\ UNCHANGED notDecoder

NextDecoder == DecoderCall

SpecDecoder == InitDecoder /\ [][NextDecoder]_vars

\* C34: a chunk larger than the read size comes out in pieces no larger than
\* the read size that together are the chunk's payload, and the body ends
\* behind them.
C34_LargeChunkInPieces ==
    (decoding.form = "hex" /\ Len(decoding.payload) > decoding.max_read) =>
        /\ \A i \in 1..Len(decoding.outs) : Len(decoding.outs[i]) <= decoding.max_read
        /\ IsPrefixOf(Flatten(decoding.outs), decoding.payload)
        /\ decoding.last # "err"
        /\ decoding.ended => Flatten(decoding.outs) = decoding.payload

\* C35: a size line of hexadecimal digits, with or without a chunk
\* extension, is decoded to its value: the calls of data() yield the
\* payload of that size and the body ends behind it; a size line that is
\* not hexadecimal fails the first call.
C35_ChunkSizeParsed ==
    /\ (decoding.form \in {"hex", "ext"} /\ Len(decoding.payload) <= decoding.max_read) =>
           /\ decoding.last # "err"
           /\ IsPrefixOf(Flatten(decoding.outs), decoding.payload)
           /\ decoding.calls >= 1 => decoding.outs # <<>> /\ decoding.outs[1] = decoding.payload
    /\ (decoding.form = "nonhex" /\ decoding.calls >= 1) => decoding.last = "err"

\* C38: when data() has returned None the decoder has read the body up to
\* the end of "0\r\n\r\n" and no further, and the calls behind it return
\* None and read nothing.
C38_EndOfBodyConsumed ==
    decoding.ended =>
        /\ decoding.leftAtEnd = decoding.rest
        /\ decoding.last = "none"
        /\ Unread(decoding.socket) = decoding.leftAtEnd

\* C36: the bytes the reads have handed out and, behind them, the bytes the
\* latest peek returned are bytes of the stream, in its order; nothing that
\* the peer did not send comes out of a read or a peek.
C36_PeekableInventsNoBytes ==
    /\ IsPrefixOf(delivered, sent)
    /\ ~lastPeek.none => IsPrefixOf(delivered \o lastPeek.out, sent)

(***************************************************************************)
(* SpecKeepAlive: handle_client's HTTP/1.1 loop (lib.rs:234-241) over a    *)
(* connection on which the client sends two requests back to back: the     *)
(* first is parsed, its body is read to its end by send_request            *)
(* (serv_conn.rs:29-54), the response is written, and parse_http11 is      *)
(* called again.                                                           *)
(***************************************************************************)
\* "GET /b HTTP/1.1" and the second request, which has no body
RequestLineB == <<71, 69, 84, 32, 47, 98, 32, 72, 84, 84, 80, 47, 49, 46, 49>>

SecondRequest == RequestLineB \o Crlf \o HostLine \o Crlf \o Crlf

\* the first requests tried: the head, the body on the wire, its payload
FirstRequests ==
    {[head |-> RequestHead(n), wire |-> Payload(IF n < 0 THEN 0 ELSE n),
      payload |-> Payload(IF n < 0 THEN 0 ELSE n)] : n \in {-1, 0, 1, 2}}
        \cup {[head |-> RequestHeadWith(TransferEncodingName, CHUNKED),
               wire |-> ChunkedWire(Pieces(Payload(Sum(lens)), lens)),
               payload |-> Payload(Sum(lens))] : lens \in {<<>>, <<1>>, <<3>>, <<1, 1>>}}

\* how the two requests reach the socket: in one segment; each request in
\* its own; the first head in its own; head, body and second request each in
\* its own
KeepArrivals(head, wire, second) ==
    {SelectSeq(w, LAMBDA seg : seg # <<>>) :
        w \in {<<head \o wire \o second>>, <<head \o wire, second>>,
               <<head, wire \o second>>, <<head, wire, second>>}}

\* the bytes not yet read start with `bytes`
StartsAt(p, bytes) ==
    IF Len(bytes) <= Len(p.buffered) THEN IsPrefixOf(bytes, p.buffered)
    ELSE /\ IsPrefixOf(p.buffered, bytes)
         /\ p.padding = 0
         /\ IsPrefixOf(Drop(bytes, Len(p.buffered)), Flatten(p.wrapped))

InitKeepAlive ==
    /\ PeekIdle
    /\ RouteIdle
    /\ DispatchIdle
    /\ HttpIdle
    /\ CodecIdle
    /\ BridgeIdle
    /\ RespIdle
    /\ LimitIdle
    /\ ServeIdle
    /\ LoopIdle
    /\ DecoderIdle
    /\ ProbeIdle
    /\ \E f \in FirstRequests :
       \E w \in KeepArrivals(f.head, f.wire, SecondRequest) :
           keep = [NoKeep EXCEPT !.pc = "first", !.first = f.head, !.body1 = f.payload,
                                 !.second = SecondRequest, !.socket = PeekableNew(w)]

\* lib.rs:236: parse_http11 for the first request
KeepParseFirst ==
    /\ keep.pc = "first"
    /\ \E r \in {ParseHttp11(keep.socket)} :
           keep' = [keep EXCEPT !.pc = IF r.result = "request" THEN "body" ELSE r.result,
                                !.socket = r.p, !.req1 = r.req, !.body = r.body]
    /\ UNCHANGED notKeep

\* serv_conn.rs:31-53: send_request reads the body; at None it goes on to the
\* response (lib.rs:239-240), which reads nothing from the client, and the
\* loop is back at parse_http11; at an error the connection is over
KeepBodyData ==
    /\ keep.pc = "body"
    /\ keep.calls < MaxDataCalls
    /\ \E r \in {RecvBodyData(keep.body, keep.socket)} :
           keep' = [keep EXCEPT !.pc = CASE r.kind = "none" -> "second"
                                         [] r.kind = "err" -> "err"
                                         [] OTHER -> "body",
                                !.socket = r.p, !.body = r.body,
                                !.yielded = keep.yielded \o r.out,
                                !.calls = keep.calls + 1]
    /\ UNCHANGED notKeep

\* lib.rs:236: parse_http11 for the second request
KeepParseSecond ==
    /\ keep.pc = "second"
    /\ \E r \in {ParseHttp11(keep.socket)} :
           keep' = [keep EXCEPT !.pc = IF r.result = "request" THEN "done" ELSE r.result,
                                !.socket = r.p, !.req2 = r.req, !.body = r.body]
    /\ UNCHANGED notKeep

NextKeepAlive ==
    \/ KeepParseFirst
    \/ KeepBodyData
    \/ KeepParseSecond

SpecKeepAlive == InitKeepAlive /\ [][NextKeepAlive]_vars

\* C37: the body read for the first request is its body and no more; when
\* the loop is back at parse_http11 the stream stands at the first byte of
\* the second request; and the request parsed there is the second request.
C37_SecondRequestParsed ==
    /\ keep.pc \notin {"idle", "first"} => keep.pc # "err" /\ keep.pc # "eof"
    /\ IsPrefixOf(keep.yielded, keep.body1)
    /\ keep.pc = "second" => keep.yielded = keep.body1 /\ StartsAt(keep.socket, keep.second)
    /\ keep.pc = "done" => /\ keep.req2.method = <<71, 69, 84>>
                           /\ keep.req2.path = <<47, 98>>

(***************************************************************************)
(* The bytes on the client's socket before the response body               *)
(* (respond.rs:98-104).                                                    *)
(***************************************************************************)

\* respond.rs:99-104: write_all(socket, &header[..]) writes the whole vector
\* the cursor was made over, the serialised header and the rest of the buffer
BeforeBody(r) == r.header \o [i \in 1..r.headerPad |-> 0]

\* C39: for an HTTP/1.1 client the bytes written to the socket before the
\* response body are exactly the serialised status line, headers and blank
\* line, with no byte between the blank line and the first body byte.
C39_HeaderBytesExact ==
    resp.pc \in {"body", "done", "failed"} =>
        /\ BeforeBody(resp) = WriteHttp11Response(
               IF resp.send_chunked
               THEN HeaderInsert(resp.headers, TRANSFER_ENCODING, CHUNKED)
               ELSE resp.headers)
        /\ Len(BeforeBody(resp)) = Len(resp.header)

(***************************************************************************)
(* A client connection from accept to its first request: the peek for the  *)
(* preauth in handle_incoming (lib.rs:93-102), the peek for the HTTP/2     *)
(* preface in handle_client (lib.rs:186-204) and the first parse_http11    *)
(* (lib.rs:236).  A read on a connection the client holds open with        *)
(* nothing more to send does not return; the task stays at that await.     *)
(***************************************************************************)

\* "GET / HTTP/1.0\r\n\r\n"
Request18 == <<71, 69, 84, 32, 47, 32, 72, 84, 84, 80, 47, 49, 46, 48>> \o Crlf \o Crlf

\* "GET /abcdef HTTP/1.0\r\n\r\n"
Request24 ==
    <<71, 69, 84, 32, 47, 97, 98, 99, 100, 101, 102, 32, 72, 84, 84, 80, 47, 49, 46, 48>>
        \o Crlf \o Crlf

\* "GET / HTTP/1.1\r\nHost:x\r\n\r\n"
Request26 ==
    <<71, 69, 84, 32, 47, 32, 72, 84, 84, 80, 47, 49, 46, 49>> \o Crlf
        \o <<72, 111, 115, 116, 58, 120>> \o Crlf \o Crlf

\* "G / HTTP/1.1\nHost:x\n\n", its lines ended by LF alone
Request21 ==
    <<71, 32, 47, 32, 72, 84, 84, 80, 47, 49, 46, 49, 10>> \o <<72, 111, 115, 116, 58, 120, 10>>
        \o <<10>>

\* the first bytes a client sends: complete HTTP/1.1 requests of 18, 21, 24,
\* 26 and 36 bytes, and the HTTP/2 preface
ProbeRequests == {Request18, Request21, Request24, Request26, SecondRequest, H2_PREFACE}

\* the segments the bytes arrive in: one, or two cut behind byte k
ProbeArrivals(bytes) ==
    {<<bytes>>} \cup {<<Take(bytes, k), Drop(bytes, k)>> : k \in {5, PREAUTH_LEN, 20}}

\* peek.rs:38-50: the loop of Peekable::peek with buf.len() = n comes to a
\* read with nothing left of what the client sent: the first read finds
\* nothing, or the prefix read so far is not enough and the buffer is not full
PeekComesToEnd(p, n, pred) ==
    LET AtEnd(f) ==
            /\ f.total < n
            /\ \/ f.total = BufferedLen(p)
               \/ ~IsEnough(pred, BufferedTake(f.p, f.total))
    IN  AtEnd(PeekFill(IF BufferedLen(p) < n THEN BufferedResize(p, n) ELSE p,
                       BufferedLen(p), n, pred))

\* the future of peek is ready: the bytes at hand let the loop finish, or the
\* read at the end of them returns 0 because the client has shut down
PeekReady(p, n, pred, open) == ~(open /\ PeekComesToEnd(p, n, pred))

InitProbe ==
    /\ PeekIdle
    /\ RouteIdle
    /\ DispatchIdle
    /\ HttpIdle
    /\ CodecIdle
    /\ BridgeIdle
    /\ RespIdle
    /\ LimitIdle
    /\ ServeIdle
    /\ LoopIdle
    /\ DecoderIdle
    /\ KeepIdle
    /\ \E bytes \in ProbeRequests, open \in BOOLEAN, version \in {"unknown", "http11"} :
           \E wire \in ProbeArrivals(bytes) :
               probe = [NoProbe EXCEPT !.pc = "preauth", !.request = bytes, !.open = open,
                                       !.version = version, !.socket = PeekableNew(wire)]

\* lib.rs:93-102, 105, 130: the peek of PREAUTH_LEN bytes; a connection that
\* does not start with the prefix goes to handle_client
ProbePreauth ==
    /\ probe.pc = "preauth"
    /\ PeekReady(probe.socket, PREAUTH_LEN, Never, probe.open)
    /\ \E pk \in {Peek(probe.socket, PREAUTH_LEN, Never)} :
           probe' = [probe EXCEPT !.socket = pk.p,
                                  !.pc = IF Len(pk.out) < PREAUTH_LEN THEN "err"
                                         ELSE IF Take(pk.out, 4) = PREAUTH_PREFIX THEN "preauthed"
                                         ELSE "client"]
    /\ UNCHANGED notProbe

\* lib.rs:184-204: with the version unknown, the peek of H2_PREFACE.len()
\* bytes and the comparison with the preface
ProbeVersion ==
    /\ probe.pc = "client"
    /\ probe.version = "unknown"
    /\ PeekReady(probe.socket, H2_PREFACE_LEN, Never, probe.open)
    /\ \E pk \in {Peek(probe.socket, H2_PREFACE_LEN, Never)} :
           probe' = [probe EXCEPT !.socket = pk.p,
                                  !.pc = IF Len(pk.out) < H2_PREFACE_LEN THEN "err" ELSE "client",
                                  !.version = IF Len(pk.out) < H2_PREFACE_LEN THEN "unknown"
                                              ELSE IF pk.out = H2_PREFACE THEN "http2"
                                              ELSE "http11"]
    /\ UNCHANGED notProbe

\* lib.rs:209-210: h2::server::handshake(conn.socket()).await? has its
\* answer; its failure ends the connection
ProbeHandshake(ok) ==
    /\ probe.pc = "client"
    /\ probe.version = "http2"
    /\ probe' = [probe EXCEPT !.pc = IF ok THEN "h2" ELSE "err"]
    /\ UNCHANGED notProbe

\* ENABLED <<ProbeParse>>_vars, as a predicate of the state
ParseReady ==
    /\ probe.pc = "client"
    /\ probe.version = "http11"
    /\ PeekReady(probe.socket, HTTP11_PARSE_BUF_SIZE, HeadParsed, probe.open)

\* lib.rs:234-236: the first parse_http11; a request goes to
\* request_to_service, None and an error end the connection
ProbeParse ==
    /\ probe.pc = "client"
    /\ probe.version = "http11"
    /\ ParseReady
    /\ \E r \in {ParseHttp11(probe.socket)} :
           probe' = [probe EXCEPT !.socket = r.p, !.result = r.result,
                                  !.pc = IF r.result = "request" THEN "dispatched"
                                         ELSE IF r.result = "eof" THEN "closed" ELSE "err"]
    /\ UNCHANGED notProbe

NextProbe ==
    \/ ProbePreauth
    \/ ProbeVersion
    \/ \E ok \in BOOLEAN : ProbeHandshake(ok)
    \/ ProbeParse

SpecProbe == InitProbe /\ [][NextProbe]_vars

\* the executor polls the task of the connection whenever the future it
\* awaits is ready: weak fairness of each step, that of ProbeParse written
\* out with ParseReady
SpecProbeFair ==
    /\ SpecProbe
    /\ WF_vars(ProbePreauth)
    /\ WF_vars(ProbeVersion)
    /\ WF_vars(\E ok \in BOOLEAN : ProbeHandshake(ok))
    /\ ([]<>~ParseReady \/ []<><<ProbeParse>>_vars)

\* the client sent one complete HTTP/1.1 request and waits for the response
WaitsWithRequest ==
    /\ probe.pc = "preauth"
    /\ probe.open
    /\ probe.request # H2_PREFACE

\* C40: on a connection with unknown ALPN, a client that sends one complete
\* HTTP/1.1 request of any valid length, the 18-byte "GET / HTTP/1.0" with a
\* blank line included, and then waits for the response eventually has that
\* request parsed: parse_http11 gets to give its answer for it.
C40_ShortRequestParsed ==
    (WaitsWithRequest /\ probe.version = "unknown") ~> (probe.result # "none")

====
